---- MODULE Spec2Model ----
(***************************************************************************)
(* MemoGraph: the labels.csv record store, its timestamped backups, the    *)
(* enrichment stages and the run_all orchestrator.                         *)
(*                                                                         *)
(* Cell values are strings, as in the CSV file.  A CSV file is a header    *)
(* (sequence of column names) and a sequence of lines, each line a         *)
(* sequence of cells.  A row read by csv.DictReader is a Python dict:      *)
(* [keys |-> insertion-ordered key sequence, at |-> key -> value].         *)
(***************************************************************************)
EXTENDS Integers, Sequences, FiniteSets, TLC

VARIABLES
    files,      \* image files found under the trip folder (os.walk order)
    store,      \* <trip>/MemoGraph/labels.csv
    backups,    \* files in <trip>/MemoGraph/backups/
    sec,        \* wall clock, whole seconds (datetime.now() in backup_csv)
    orch,       \* run_pipeline: [state, i] position in the stage list, and
                \* run, the number of program invocations so far
    runlog,     \* run_all.log entries and stage call/return events of the run
    result,     \* how the last run_pipeline call ended, as seen by its caller
    last,       \* the most recent stage / function call and what it did
    nsnap,      \* number of snapshots taken so far (history)
    retention,  \* max_backups passed to backup_csv
    arg,        \* arguments of a function called on its own
    outputs,    \* entries of <trip>/MemoGraph/outputs/, by name
    matched     \* the list query_images returned

vars == <<files, store, backups, sec, orch, runlog, result, last, nsnap, retention, arg, outputs, matched>>

----------------------------------------------------------------------------
(* Bounds of the model *)

MaxFiles == 2       \* image files in a trip folder
MaxSec == 1         \* the wall clock runs over seconds 0..MaxSec
MaxOps == 5         \* snapshot operations in the rotation specification
MaxRuns == 1        \* run_pipeline invocations
MaxRows == 3        \* rows of a store handed to a stage run on its own
MaxDay == 40        \* largest integer read back from a day_number cell
MaxWrites == 3      \* rewrites of the store in the rotation specification
MaxCsvRows == 2     \* records handed to write_csv_dict called on its own
MaxCalls == 2       \* stage scripts run one after another on their own
MaxImages == 3      \* images of a trip folder a store was scanned from
MaxParts == 3       \* ':'-separated parts of a date or day filter
MaxFilters == 2     \* predicates given to one query
MaxLimit == 2       \* largest --limit given to a query
MaxGpsRows == 3     \* rows of a store handed to location_resolver.py
MaxSnaps == 3       \* backup_csv calls in a folder that holds several stores

(* Program constants *)

MAX_BACKUPS == 3

CSV_HEADERS ==
    << "image_name", "local_path", "md5sum", "datetime_original", "device_model",
       "gps_lat", "gps_lon", "location_inferred", "day_number",
       "detected_objects", "species_tags", "faces_detected", "people_tags",
       "caption", "caption_ai", "notes" >>

----------------------------------------------------------------------------
(* Sequences and dicts *)

Range(s) == {s[i] : i \in DOMAIN s}

Min(S) == CHOOSE x \in S : \A y \in S : x <= y

IndexOf(s, x) == CHOOSE i \in DOMAIN s : s[i] = x

\* dict.get(k) or "" / dict.get(k, "")
Get(r, k) == IF k \in Range(r.keys) THEN r.at[k] ELSE ""

\* r[k] = v : an existing key keeps its position, a new key is appended
SetItem(r, k, v) ==
    IF k \in Range(r.keys)
    THEN [r EXCEPT !.at[k] = v]
    ELSE [keys |-> Append(r.keys, k),
          at   |-> [x \in Range(r.keys) \cup {k} |-> IF x = k THEN v ELSE r.at[x]]]

----------------------------------------------------------------------------
(* CSV files: utils_io.read_csv_dict / write_csv_dict *)

NoFile == [exists |-> FALSE, header |-> <<>>, rows |-> <<>>, mtime |-> 0]

\* the key csv.DictReader files the surplus cells of a long line under
\* (restkey, None in Python: never a fieldname)
restkey == "<restkey>"

\* one dict of csv.DictReader: dict(zip(fieldnames, row)); the surplus cells of
\* a longer line go under restkey, the columns a shorter line lacks get
\* restval (None, which csv.DictWriter writes as "" and is "" here)
DictRow(header, line) ==
    LET keys == header \o (IF Len(header) < Len(line) THEN <<restkey>> ELSE <<>>)
    IN  [keys |-> keys,
         at   |-> [k \in Range(keys) |->
                     IF k = restkey THEN SubSeq(line, Len(header) + 1, Len(line))
                     ELSE IF IndexOf(header, k) <= Len(line) THEN line[IndexOf(header, k)]
                     ELSE ""]]

\* a reader that also skips the lines whose cells are all empty
DictReader_SkipEmpty(header, lines) ==
    LET full == SelectSeq(lines, LAMBDA l : \E j \in DOMAIN l : l[j] # "")
    IN  [i \in DOMAIN full |-> DictRow(header, full[i])]

\* list(csv.DictReader(f)): the lines after the header, one dict each; a blank
\* line (no cell at all) is skipped
DictReader(header, lines) ==
    LET full == SelectSeq(lines, LAMBDA l : l # <<>>)
    IN  [i \in DOMAIN full |-> DictRow(header, full[i])]

read_csv_dict(f) ==
    IF ~f.exists THEN <<>> ELSE DictReader(f.header, f.rows)

\* csv.DictWriter._dict_to_list with the default extrasaction="raise" and
\* restval="": a dict holding a key that is not a fieldname raises ValueError.
HasExtras(r, fieldnames) == ~(Range(r.keys) \subseteq Range(fieldnames))

dict_to_list(r, fieldnames) ==
    [j \in 1..Len(fieldnames) |-> Get(r, fieldnames[j])]

\* open(path, "w") truncates the file, writeheader() writes the header, and
\* writerows() writes line after line until a row raises; the `with` block
\* closes the file, so that the lines before the offending row stay on disk.
write_csv_dict(rows, fieldnames, mtime) ==
    LET bad == {i \in 1..Len(rows) : HasExtras(rows[i], fieldnames)}
        n   == IF bad = {} THEN Len(rows) ELSE Min(bad) - 1
    IN  [raised |-> bad # {},
         file   |-> [exists |-> TRUE,
                     header |-> fieldnames,
                     rows   |-> [i \in 1..n |-> dict_to_list(rows[i], fieldnames)],
                     mtime  |-> mtime]]

----------------------------------------------------------------------------
(* Backups: utils_io.backup_csv / rotate_backups *)

\* A snapshot file: name is the "%Y%m%d_%H%M%S" stamp of its file name
\* labels_<stamp>.csv, mtime is copied from the store by shutil.copy2.
\* born is history: the ordinal of the backup_csv call that wrote the file.
Snapshot(f, stamp, n) ==
    [name |-> stamp, mtime |-> f.mtime, header |-> f.header, rows |-> f.rows, born |-> n]

\* shutil.copy2(csv_path, backup_path): a file of the same name is overwritten
copy2(dir, snap) == {s \in dir : s.name # snap.name} \cup {snap}

Perms(S) ==
    {p \in [1..Cardinality(S) -> S] : \A i, j \in 1..Cardinality(S) : i # j => p[i] # p[j]}

\* sorted(os.listdir(...), key=getmtime, reverse=True): os.listdir returns the
\* names in arbitrary order and the sort is stable, so files of equal mtime can
\* come out in any relative order.
SortedNewestFirst(dir) ==
    {p \in Perms(dir) : \A i, j \in DOMAIN p : i < j => p[i].mtime >= p[j].mtime}

\* rotate_backups: os.remove every path beyond position max_backups
rotate_backups(dir, existing, max_backups) ==
    dir \ {existing[i] : i \in {j \in DOMAIN existing : j > max_backups}}

\* backup_csv: the set of possible contents of the backups folder afterwards
backup_csv(f, dir, now, n, max_backups) ==
    IF ~f.exists THEN {dir}
    ELSE LET copied == copy2(dir, Snapshot(f, now, n))
         IN  {rotate_backups(copied, existing, max_backups) :
                 existing \in SortedNewestFirst(copied)}

----------------------------------------------------------------------------
(* Python str operations *)

Char(s, i) == SubSeq(s, i, i)

RECURSIVE strip(_)
\* str.strip(), for the blank character
strip(s) ==
    IF Len(s) = 0 THEN s
    ELSE IF Char(s, 1) = " " THEN strip(SubSeq(s, 2, Len(s)))
    ELSE IF Char(s, Len(s)) = " " THEN strip(SubSeq(s, 1, Len(s) - 1))
    ELSE s

\* sub in s
Contains(s, sub) ==
    \E i \in 1..(Len(s) + 1) :
        i + Len(sub) - 1 <= Len(s) /\ SubSeq(s, i, i + Len(sub) - 1) = sub

\* s.endswith(suffix)
endswith(s, suffix) ==
    Len(suffix) <= Len(s) /\ SubSeq(s, Len(s) - Len(suffix) + 1, Len(s)) = suffix

RECURSIVE split(_, _)
\* s.split(sep) for a separator of one character
split(s, sep) ==
    LET at == {i \in 1..Len(s) : Char(s, i) = sep}
    IN  IF at = {} THEN <<s>>
        ELSE <<SubSeq(s, 1, Min(at) - 1)>> \o split(SubSeq(s, Min(at) + 1, Len(s)), sep)

Uppercase == "ABCDEFGHIJKLMNOPQRSTUVWXYZ"

Lowercase == "abcdefghijklmnopqrstuvwxyz"

\* the lower-case letter of every upper-case letter
LowerOf ==
    [c \in {Char(Uppercase, k) : k \in 1..Len(Uppercase)} |->
        Char(Lowercase, CHOOSE k \in 1..Len(Uppercase) : Char(Uppercase, k) = c)]

RECURSIVE lower(_)
\* s.lower(), for the letters A-Z
lower(s) ==
    IF Len(s) = 0 THEN s
    ELSE LET c == Char(s, 1)
         IN  (IF c \in DOMAIN LowerOf THEN LowerOf[c] ELSE c) \o lower(SubSeq(s, 2, Len(s)))

Digits == "0123456789"

\* the value of every decimal digit
DigitValue ==
    [c \in {Char(Digits, d) : d \in 1..Len(Digits)} |->
        (CHOOSE d \in 1..Len(Digits) : Char(Digits, d) = c) - 1]

IsDigits(s) ==
    Len(s) > 0 /\ \A i \in 1..Len(s) : Char(s, i) \in DOMAIN DigitValue

RECURSIVE Number(_)
\* the value of a text of decimal digits
Number(s) ==
    IF Len(s) = 0 THEN 0
    ELSE Number(SubSeq(s, 1, Len(s) - 1)) * 10 + DigitValue[Char(s, Len(s))]

\* int(s) succeeds: blanks around, an optional sign, then digits
IsIntText(s) ==
    LET t == strip(s)
    IN  IF Len(t) > 0 /\ Char(t, 1) \in {"+", "-"}
        THEN IsDigits(SubSeq(t, 2, Len(t)))
        ELSE IsDigits(t)

\* int(s)
IntOf(s) ==
    LET t == strip(s)
    IN  IF Char(t, 1) = "-" THEN 0 - Number(SubSeq(t, 2, Len(t)))
        ELSE IF Char(t, 1) = "+" THEN Number(SubSeq(t, 2, Len(t)))
        ELSE Number(t)

----------------------------------------------------------------------------
(* Timestamps: datetime.strptime(raw, "%Y:%m:%d %H:%M:%S") *)

\* The texts that match the pattern of the format, split into their numeric
\* fields <<Y, m, d, H, M, S>>.  Every other text fails to match.
TimestampFields ==
    "2024:08:16 09:00:00" :> <<2024, 8, 16, 9, 0, 0>> @@
    "2024:08:16 18:00:00" :> <<2024, 8, 16, 18, 0, 0>> @@
    "2024:08:17 07:00:00" :> <<2024, 8, 17, 7, 0, 0>> @@
    "2024:08:17 19:00:00" :> <<2024, 8, 17, 19, 0, 0>> @@
    "2024:09:02 00:10:00" :> <<2024, 9, 2, 0, 10, 0>> @@
    "2024:09:31 09:00:00" :> <<2024, 9, 31, 9, 0, 0>> @@
    "0000:00:00 00:00:00" :> <<0, 0, 0, 0, 0, 0>>

\* Values found in the datetime_original column
TimestampTexts == DOMAIN TimestampFields \cup {"", " ", "2024-08-16 09:00:00"}

IsLeap(y) == (y % 4 = 0) /\ ((y % 100 # 0) \/ (y % 400 = 0))

DaysInMonth(y, m) ==
    IF m = 2 THEN (IF IsLeap(y) THEN 29 ELSE 28)
    ELSE IF m \in {4, 6, 9, 11} THEN 30 ELSE 31

RECURSIVE DaysBeforeMonth(_, _)
DaysBeforeMonth(y, m) ==
    IF m = 1 THEN 0 ELSE DaysBeforeMonth(y, m - 1) + DaysInMonth(y, m - 1)

DaysBeforeYear(y) ==
    (y - 1) * 365 + ((y - 1) \div 4) - ((y - 1) \div 100) + ((y - 1) \div 400)

\* date.toordinal()
toordinal(y, m, d) == DaysBeforeYear(y) + DaysBeforeMonth(y, m) + d

ValidFields(t) ==
    /\ t[1] \in 1..9999
    /\ t[2] \in 1..12
    /\ t[3] \in 1..DaysInMonth(t[1], t[2])
    /\ t[4] \in 0..23
    /\ t[5] \in 0..59
    /\ t[6] \in 0..59

NoDate == [ok |-> FALSE, ord |-> 0, tod |-> 0]

\* A datetime is its date ordinal and the second of the day; strptime raises
\* ValueError (ok = FALSE) for a text that does not match or is no real date.
strptime(raw) ==
    IF raw \in DOMAIN TimestampFields /\ ValidFields(TimestampFields[raw])
    THEN LET t == TimestampFields[raw]
         IN  [ok |-> TRUE, ord |-> toordinal(t[1], t[2], t[3]),
              tod |-> t[4] * 3600 + t[5] * 60 + t[6]]
    ELSE NoDate

\* datetime ordering
DtLeq(a, b) == a.ord < b.ord \/ (a.ord = b.ord /\ a.tod <= b.tod)

MinDt(S) == CHOOSE x \in S : \A y \in S : DtLeq(x, y)

----------------------------------------------------------------------------
(* image_query_tool.matches_date / matches_range *)

\* datetime.strptime(s, "%Y<sep>%m<sep>%d"): four digits, one or two digits,
\* one or two digits, and a real calendar date; ok = FALSE for ValueError
strptime_date(s, sep) ==
    LET p == split(s, sep)
    IN  IF /\ Len(p) = 3
           /\ IsDigits(p[1]) /\ Len(p[1]) = 4
           /\ IsDigits(p[2]) /\ Len(p[2]) <= 2
           /\ IsDigits(p[3]) /\ Len(p[3]) <= 2
           /\ Number(p[1]) >= 1
           /\ Number(p[2]) \in 1..12
           /\ Number(p[3]) \in 1..DaysInMonth(Number(p[1]), Number(p[2]))
        THEN [ok |-> TRUE, ord |-> toordinal(Number(p[1]), Number(p[2]), Number(p[3])),
              tod |-> 0]
        ELSE NoDate

\* what a call gives: a returned truth value, or an exception
Ret(v) == [raised |-> FALSE, val |-> v]

Raise == [raised |-> TRUE, val |-> FALSE]

\* the whole timestamp is parsed and compared with the bounds, so that the
\* end date holds only records taken at midnight
matches_date_WithTime(date_str, date_range) ==
    LET dt == strptime(date_str)
        p == split(date_range, ":")
    IN  IF date_str = "" \/ ~dt.ok THEN Ret(FALSE)
        ELSE IF Contains(date_range, ":")
        THEN IF Len(p) # 2 \/ ~strptime_date(p[1], "-").ok \/ ~strptime_date(p[2], "-").ok
             THEN Ret(FALSE)
             ELSE Ret(DtLeq(strptime_date(p[1], "-"), dt) /\ DtLeq(dt, strptime_date(p[2], "-")))
        ELSE IF ~strptime_date(date_range, "-").ok THEN Ret(FALSE)
             ELSE Ret(dt.ord = strptime_date(date_range, "-").ord)

\* matches_date of src/image_query_tool.py: `start_str, end_str =
\* date_range.split(":")` stands before the try block, so that a range that
\* does not split into two raises ValueError
matches_date_Top(date_str, date_range) ==
    LET dt == strptime_date(split(date_str, " ")[1], ":")
        p == split(date_range, ":")
    IN  IF date_str = "" \/ ~dt.ok THEN Ret(FALSE)
        ELSE IF Contains(date_range, ":")
        THEN IF Len(p) # 2 THEN Raise
             ELSE IF ~strptime_date(p[1], "-").ok \/ ~strptime_date(p[2], "-").ok
             THEN Ret(FALSE)
             ELSE Ret(strptime_date(p[1], "-").ord <= dt.ord
                      /\ dt.ord <= strptime_date(p[2], "-").ord)
        ELSE IF ~strptime_date(date_range, "-").ok THEN Ret(FALSE)
             ELSE Ret(dt.ord = strptime_date(date_range, "-").ord)

\* matches_date of src/scripts/image_query_tool.py: date_str "" stands for
\* None as well; every exception is caught by the bare except clauses
matches_date(date_str, date_range) ==
    LET dt == strptime_date(split(date_str, " ")[1], ":")
        p == split(date_range, ":")
    IN  IF date_str = "" \/ ~dt.ok THEN Ret(FALSE)
        ELSE IF Contains(date_range, ":")
        THEN IF Len(p) # 2 \/ ~strptime_date(p[1], "-").ok \/ ~strptime_date(p[2], "-").ok
             THEN Ret(FALSE)
             ELSE Ret(strptime_date(p[1], "-").ord <= dt.ord
                      /\ dt.ord <= strptime_date(p[2], "-").ord)
        ELSE IF ~strptime_date(date_range, "-").ok THEN Ret(FALSE)
             ELSE Ret(dt.ord = strptime_date(date_range, "-").ord)

\* the upper bound left out of the range
matches_range_Exclusive(val_str, filter_str) ==
    LET p == split(filter_str, ":")
    IN  IF ~IsIntText(val_str) THEN Ret(FALSE)
        ELSE IF Contains(filter_str, ":")
        THEN IF Len(p) # 2 \/ ~IsIntText(p[1]) \/ ~IsIntText(p[2]) THEN Ret(FALSE)
             ELSE Ret(IntOf(p[1]) <= IntOf(val_str) /\ IntOf(val_str) < IntOf(p[2]))
        ELSE Ret(val_str = filter_str)

\* matches_range(val_str, filter_str), the same in both image_query_tool.py:
\* val_str "" stands for None as well
matches_range(val_str, filter_str) ==
    LET p == split(filter_str, ":")
    IN  IF ~IsIntText(val_str) THEN Ret(FALSE)
        ELSE IF Contains(filter_str, ":")
        THEN IF Len(p) # 2 \/ ~IsIntText(p[1]) \/ ~IsIntText(p[2]) THEN Ret(FALSE)
             ELSE Ret(IntOf(p[1]) <= IntOf(val_str) /\ IntOf(val_str) <= IntOf(p[2]))
        ELSE Ret(val_str = filter_str)

----------------------------------------------------------------------------
(* query_images of src/scripts/image_query_tool.py, the tool that takes --trip-folder *)

\* filters[name].lower() in (row.get(col) or "").lower()
InColumn(row, col, needle) == Contains(lower(Get(row, col)), lower(needle))

\* an entry of the outputs folder: a directory, or a CSV file
DirEntry(name) == [name |-> name, kind |-> "dir", header |-> <<>>, rows |-> <<>>]

FileEntry(name, f) == [name |-> name, kind |-> "file", header |-> f.header, rows |-> f.rows]

\* filters.get("limit"): None and 0 are both falsy
LimitGiven(filters) == filters.limit.given /\ filters.limit.n # 0

\* the predicates OR'd: a row is skipped only when it fails every given one
Skips_All(row, filters) ==
    /\ \/ filters.text = ""
       \/ ~\E col \in {"caption", "caption_ai", "caption_samples"} :
               InColumn(row, col, filters.text)
    /\ filters.species = "" \/ ~InColumn(row, "species_tags", filters.species)
    /\ ~filters.faces \/ Get(row, "faces_detected") = ""
    /\ filters.people = "" \/ ~InColumn(row, "people_tags", filters.people)
    /\ filters.location = "" \/ ~InColumn(row, "location_inferred", filters.location)
    /\ filters.device = "" \/ ~InColumn(row, "device_model", filters.device)
    /\ filters.date = "" \/ ~matches_date(Get(row, "datetime_original"), filters.date).val
    /\ filters.day = "" \/ ~matches_range(Get(row, "day_number"), filters.day).val
    /\ filters.notes = "" \/ ~InColumn(row, "notes", filters.notes)
    /\ \/ filters.ext = ""
       \/ ~\E e \in Range(split(filters.ext, ",")) :
               endswith(lower(Get(row, "image_name")), lower(strip(e)))
    /\ \/ filters.text # "" \/ filters.species # "" \/ filters.faces
       \/ filters.people # "" \/ filters.location # "" \/ filters.device # ""
       \/ filters.date # "" \/ filters.day # "" \/ filters.notes # ""
       \/ filters.ext # ""

\* the chain of `if <filter given> and not <predicate>: continue` statements
Skips(row, filters) ==
    \/ /\ filters.text # ""
       /\ ~\E col \in {"caption", "caption_ai", "caption_samples"} :
               InColumn(row, col, filters.text)
    \/ filters.species # "" /\ ~InColumn(row, "species_tags", filters.species)
    \/ filters.faces /\ Get(row, "faces_detected") = ""
    \/ filters.people # "" /\ ~InColumn(row, "people_tags", filters.people)
    \/ filters.location # "" /\ ~InColumn(row, "location_inferred", filters.location)
    \/ filters.device # "" /\ ~InColumn(row, "device_model", filters.device)
    \/ filters.date # "" /\ ~matches_date(Get(row, "datetime_original"), filters.date).val
    \/ filters.day # "" /\ ~matches_range(Get(row, "day_number"), filters.day).val
    \/ filters.notes # "" /\ ~InColumn(row, "notes", filters.notes)
    \/ /\ filters.ext # ""
       /\ ~\E e \in Range(split(filters.ext, ",")) :
               endswith(lower(Get(row, "image_name")), lower(strip(e)))

\* a predicate call raises on the row
RaisesOn(row, filters) ==
    \/ filters.date # "" /\ matches_date(Get(row, "datetime_original"), filters.date).raised
    \/ filters.day # "" /\ matches_range(Get(row, "day_number"), filters.day).raised

RECURSIVE Scan(_, _, _, _)
\* the loop over the rows from row i on, so_far being the matches before it
Scan(rows, i, so_far, filters) ==
    IF i > Len(rows) THEN so_far
    ELSE IF Skips(rows[i], filters) THEN Scan(rows, i + 1, so_far, filters)
    ELSE IF LimitGiven(filters) /\ Len(so_far) + 1 >= filters.limit.n
    THEN Append(so_far, rows[i])
    ELSE Scan(rows, i + 1, Append(so_far, rows[i]), filters)

\* ensure_dir(export_path): os.makedirs(path, exist_ok=True) makes the path a
\* directory, and raises FileExistsError when a file has the name
ensure_dir(out, name) ==
    IF \E e \in out : e.name = name /\ e.kind = "file"
    THEN [raised |-> TRUE, outputs |-> out]
    ELSE [raised |-> FALSE, outputs |-> {e \in out : e.name # name} \cup {DirEntry(name)}]

\* write_csv_dict(export_path, matched, matched[0].keys()): open(path, "w")
\* raises IsADirectoryError when the path is a directory
Export(out, name, rows_out) ==
    LET made == ensure_dir(out, name)
        w == write_csv_dict(rows_out, rows_out[1].keys, 1)
    IN  IF made.raised THEN [error |-> "FileExistsError", outputs |-> made.outputs]
        ELSE IF \E e \in made.outputs : e.name = name /\ e.kind = "dir"
        THEN [error |-> "IsADirectoryError", outputs |-> made.outputs]
        ELSE [error |-> IF w.raised THEN "ValueError" ELSE "",
              outputs |-> {e \in made.outputs : e.name # name} \cup {FileEntry(name, w.file)}]

\* query_images(csv_path, log_path, **filters): what it returns (or the
\* exception it ends with) and the outputs folder it leaves
query_images(f, out, filters) ==
    LET rows == read_csv_dict(f)
        found == Scan(rows, 1, <<>>, filters)
        exported == Export(out, filters.export, found)
    IN  IF \E i \in DOMAIN rows : RaisesOn(rows[i], filters)
        THEN [error |-> "Exception", matched |-> <<>>, outputs |-> out]
        ELSE IF filters.export # "" /\ found # <<>>
        THEN [error |-> exported.error,
              matched |-> IF exported.error = "" THEN found ELSE <<>>,
              outputs |-> exported.outputs]
        ELSE [error |-> "", matched |-> found, outputs |-> out]

----------------------------------------------------------------------------
(* query_images of src/image_query_tool.py, the tool that takes --csv *)

\* the predicates checked before the date: text, species, faces, people,
\* location, device
EarlySkip_Top(row, filters) ==
    \/ /\ filters.text # ""
       /\ ~\E col \in {"caption", "caption_ai", "caption_samples"} :
               InColumn(row, col, filters.text)
    \/ filters.species # "" /\ ~InColumn(row, "species_tags", filters.species)
    \/ filters.faces /\ strip(Get(row, "faces_detected")) = ""
    \/ filters.people # "" /\ ~InColumn(row, "people_tags", filters.people)
    \/ filters.location # "" /\ ~InColumn(row, "location_inferred", filters.location)
    \/ filters.device # "" /\ ~InColumn(row, "device_model", filters.device)

\* the date predicate is reached for the row and raises
DateRaises_Top(row, filters) ==
    /\ ~EarlySkip_Top(row, filters)
    /\ filters.date # ""
    /\ matches_date_Top(Get(row, "datetime_original"), filters.date).raised

\* row.get("image_name", "").lower().endswith(ext.strip()): the suffix is
\* taken as it was typed
Skips_Top(row, filters) ==
    \/ EarlySkip_Top(row, filters)
    \/ filters.date # "" /\ ~matches_date_Top(Get(row, "datetime_original"), filters.date).val
    \/ filters.day # "" /\ ~matches_range(Get(row, "day_number"), filters.day).val
    \/ filters.notes # "" /\ ~InColumn(row, "notes", filters.notes)
    \/ /\ filters.ext # ""
       /\ ~\E e \in Range(split(filters.ext, ",")) :
               endswith(lower(Get(row, "image_name")), strip(e))

RECURSIVE Scan_Top(_, _, _, _)
\* the loop over the reader from row i on: the matches, or raised when a
\* predicate raises on the way
Scan_Top(rows, i, so_far, filters) ==
    IF i > Len(rows) THEN [raised |-> FALSE, rows |-> so_far]
    ELSE IF DateRaises_Top(rows[i], filters) THEN [raised |-> TRUE, rows |-> so_far]
    ELSE IF Skips_Top(rows[i], filters) THEN Scan_Top(rows, i + 1, so_far, filters)
    ELSE IF LimitGiven(filters) /\ Len(so_far) + 1 >= filters.limit.n
    THEN [raised |-> FALSE, rows |-> Append(so_far, rows[i])]
    ELSE Scan_Top(rows, i + 1, Append(so_far, rows[i]), filters)

\* open(filters["export"], "w") and, if matched, a csv.DictWriter over
\* matched[0].keys(): the file is created (empty) also when nothing matched
Export_Top(out, name, rows_out) ==
    LET w == IF rows_out = <<>>
             THEN [raised |-> FALSE,
                   file |-> [exists |-> TRUE, header |-> <<>>, rows |-> <<>>, mtime |-> 1]]
             ELSE write_csv_dict(rows_out, rows_out[1].keys, 1)
    IN  IF \E e \in out : e.name = name /\ e.kind = "dir"
        THEN [error |-> "IsADirectoryError", outputs |-> out]
        ELSE [error |-> IF w.raised THEN "ValueError" ELSE "",
              outputs |-> {e \in out : e.name # name} \cup {FileEntry(name, w.file)}]

\* query_images(csv_path, **filters)
query_images_Top(f, out, filters) ==
    LET found == Scan_Top(read_csv_dict(f), 1, <<>>, filters)
        exported == Export_Top(out, filters.export, found.rows)
    IN  IF ~f.exists THEN [error |-> "FileNotFoundError", matched |-> <<>>, outputs |-> out]
        ELSE IF found.raised THEN [error |-> "ValueError", matched |-> <<>>, outputs |-> out]
        ELSE IF filters.export # ""
        THEN [error |-> exported.error,
              matched |-> IF exported.error = "" THEN found.rows ELSE <<>>,
              outputs |-> exported.outputs]
        ELSE [error |-> "", matched |-> found.rows, outputs |-> out]

----------------------------------------------------------------------------
(* Stage results *)

\* What a stage call did: the store and the backups folder it leaves, the last
\* line it logged (status), whether it called backup_csv on an existing store,
\* whether it opened the store for writing, and whether it raised.
StageResult(f, dir, status, snapped, wrote, raised) ==
    [store |-> f, backups |-> dir, status |-> status,
     snapped |-> snapped, wrote |-> wrote, raised |-> raised]

\* The result of the final write_csv_dict(path, rows, fieldnames) of a stage
Save(f, dir, rows, fieldnames, snapped) ==
    LET w == write_csv_dict(rows, fieldnames, f.mtime + 1)
    IN  StageResult(w.file, dir, IF w.raised THEN "ValueError" ELSE "saved",
                    snapped, TRUE, w.raised)

----------------------------------------------------------------------------
(* trip_day_assigner.assign_days *)

\* the (dt, r) pairs: dt of row i, ok = FALSE standing for None
ParsedDt(r) ==
    LET raw == strip(Get(r, "datetime_original"))
    IN  IF raw = "" THEN NoDate ELSE strptime(raw)

\* the first valid row taken as the start of the trip
TripStart_FirstRow(rows) ==
    ParsedDt(rows[Min({j \in DOMAIN rows : ParsedDt(rows[j]).ok})])

\* trip_start = min(valid)
TripStart(rows) ==
    MinDt({ParsedDt(rows[i]) : i \in {j \in DOMAIN rows : ParsedDt(rows[j]).ok}})

\* (dt - trip_start).days + 1: whole days elapsed since the first photo
DayNum_Elapsed(dt, trip_start) ==
    (((dt.ord - trip_start.ord) * 86400 + dt.tod - trip_start.tod) \div 86400) + 1

\* (dt.date() - trip_start.date()).days + 1
DayNum(dt, trip_start) == (dt.ord - trip_start.ord) + 1

\* a row without a timestamp put on day 1
DayValue_One(r, trip_start) ==
    IF ~ParsedDt(r).ok THEN "1" ELSE ToString(DayNum(ParsedDt(r), trip_start))

\* r["day_number"] = "" if dt is None else str(day_num)
DayValue(r, trip_start) ==
    IF ~ParsedDt(r).ok THEN "" ELSE ToString(DayNum(ParsedDt(r), trip_start))

assign_days(f, dir, now, n) ==
    LET rows == read_csv_dict(f)
    IN  IF ~f.exists THEN {StageResult(f, dir, "ERROR: labels.csv not found", FALSE, FALSE, FALSE)}
        ELSE IF rows = <<>>
        THEN {StageResult(f, dir, "ERROR: labels.csv has no rows", FALSE, FALSE, FALSE)}
        ELSE IF ~({"datetime_original", "day_number"} \subseteq Range(rows[1].keys))
        THEN {StageResult(f, dir, "ERROR: Missing columns", FALSE, FALSE, FALSE)}
        ELSE IF \A i \in DOMAIN rows : ~ParsedDt(rows[i]).ok
        THEN {StageResult(f, b, "ERROR: No valid datetime_original", TRUE, FALSE, FALSE) :
                 b \in backup_csv(f, dir, now, n, MAX_BACKUPS)}
        ELSE LET trip_start == TripStart(rows)
                 assigned == [i \in DOMAIN rows |->
                                SetItem(rows[i], "day_number", DayValue(rows[i], trip_start))]
             IN  {Save(f, b, assigned, assigned[1].keys, TRUE) :
                     b \in backup_csv(f, dir, now, n, MAX_BACKUPS)}

----------------------------------------------------------------------------
(* image_scanner.scan_images *)

\* the row built for one image file: every CSV_HEADERS column, the EXIF
\* columns filled in
ScannedRow(img) ==
    [keys |-> CSV_HEADERS,
     at   |-> [k \in Range(CSV_HEADERS) |->
                 IF k \in {"image_name", "local_path"} THEN img.name
                 ELSE IF k = "md5sum" THEN "md5:" \o img.name
                 ELSE IF k = "datetime_original" THEN img.datetime_original
                 ELSE IF k = "gps_lat" THEN img.gps_lat
                 ELSE IF k = "gps_lon" THEN img.gps_lon
                 ELSE ""]]

\* backs up an existing store, then writes a fresh one from the files found
scan_images(imgs, f, dir, now, n) ==
    LET rows_out == [i \in DOMAIN imgs |-> ScannedRow(imgs[i])]
    IN  {Save(f, b, rows_out, CSV_HEADERS, f.exists) :
            b \in backup_csv(f, dir, now, n, MAX_BACKUPS)}

----------------------------------------------------------------------------
(* location_resolver.fill_location *)

\* infer_trip_name_from_path(trip_folder)
TripHint == "test trip"

\* texts float() accepts
FloatTexts == {"12.97", "77.59"}

\* resolve_location_from_gps is reached for the row: the location is blank,
\* both coordinates are there and float() takes them
GeocoderCalled(r) ==
    /\ strip(Get(r, "location_inferred")) = ""
    /\ strip(Get(r, "gps_lat")) # "" /\ strip(Get(r, "gps_lon")) # ""
    /\ strip(Get(r, "gps_lat")) \in FloatTexts /\ strip(Get(r, "gps_lon")) \in FloatTexts

\* a row whose geocoding failed is left without a location
LocatedRow_KeepEmpty(r, addr) ==
    LET current_loc == strip(Get(r, "location_inferred"))
        lat_raw == strip(Get(r, "gps_lat"))
        lon_raw == strip(Get(r, "gps_lon"))
    IN  IF current_loc # "" THEN r
        ELSE IF lat_raw # "" /\ lon_raw # ""
        THEN IF lat_raw \in FloatTexts /\ lon_raw \in FloatTexts
             THEN SetItem(r, "location_inferred", addr)
             ELSE SetItem(r, "location_inferred", TripHint)
        ELSE SetItem(r, "location_inferred", TripHint)

\* addr: what resolve_location_from_gps returns for the row, "" for None
LocatedRow(r, addr) ==
    LET current_loc == strip(Get(r, "location_inferred"))
        lat_raw == strip(Get(r, "gps_lat"))
        lon_raw == strip(Get(r, "gps_lon"))
    IN  IF current_loc # "" THEN r
        ELSE IF lat_raw # "" /\ lon_raw # ""
        THEN IF lat_raw \in FloatTexts /\ lon_raw \in FloatTexts /\ addr # ""
             THEN SetItem(r, "location_inferred", addr)
             ELSE SetItem(r, "location_inferred", TripHint)
        ELSE SetItem(r, "location_inferred", TripHint)

fill_location(f, dir, now, n, geo) ==
    LET rows == read_csv_dict(f)
    IN  IF ~f.exists THEN {StageResult(f, dir, "ERROR: labels.csv not found", FALSE, FALSE, FALSE)}
        ELSE IF rows = <<>>
        THEN {StageResult(f, dir, "ERROR: labels.csv is empty", FALSE, FALSE, FALSE)}
        ELSE IF ~({"gps_lat", "gps_lon", "location_inferred"} \subseteq Range(rows[1].keys))
        THEN {StageResult(f, dir, "ERROR: labels.csv missing columns", FALSE, FALSE, FALSE)}
        ELSE LET located == [i \in DOMAIN rows |-> LocatedRow(rows[i], geo[i])]
             IN  {Save(f, b, located, located[1].keys, TRUE) :
                     b \in backup_csv(f, dir, now, n, MAX_BACKUPS)}

----------------------------------------------------------------------------
(* face_detector.process_faces *)

\* found[i]: the image of row i exists; face[i]: detect_faces finds a face.
\* The int flag is written by csv as its str().
process_faces(f, dir, now, n, found, face) ==
    LET rows == read_csv_dict(f)
        flagged == [i \in DOMAIN rows |->
                      SetItem(rows[i], "faces_detected",
                              IF found[i] /\ face[i] THEN ToString(1) ELSE ToString(0))]
    IN  IF ~f.exists THEN {StageResult(f, dir, "ERROR: labels.csv not found", FALSE, FALSE, FALSE)}
        ELSE IF rows = <<>>
        THEN {StageResult(f, b, "No rows found. Exiting.", TRUE, FALSE, FALSE) :
                 b \in backup_csv(f, dir, now, n, MAX_BACKUPS)}
        ELSE {Save(f, b, flagged, flagged[1].keys, TRUE) :
                 b \in backup_csv(f, dir, now, n, MAX_BACKUPS)}

----------------------------------------------------------------------------
(* caption_filler.fill_captions *)

\* caps[i]: the caption generate_multiple_captions gives for row i; "" when
\* the list is empty or the call raises (the row is left alone in both cases)
CaptionedRow(r, found, cap) ==
    IF ~found \/ cap = "" THEN r
    ELSE SetItem(SetItem(r, "caption", cap), "caption_samples", cap)

\* loaded: BlipProcessor / BlipForConditionalGeneration.from_pretrained succeed
fill_captions(f, dir, now, n, loaded, found, caps) ==
    LET rows == read_csv_dict(f)
        captioned == [i \in DOMAIN rows |-> CaptionedRow(rows[i], found[i], caps[i])]
    IN  IF ~f.exists THEN {StageResult(f, dir, "ERROR: labels.csv not found", FALSE, FALSE, FALSE)}
        ELSE IF rows = <<>>
        THEN {StageResult(f, b, "No rows found. Exiting.", TRUE, FALSE, FALSE) :
                 b \in backup_csv(f, dir, now, n, MAX_BACKUPS)}
        ELSE IF ~loaded
        THEN {StageResult(f, b, "OSError", TRUE, FALSE, TRUE) :
                 b \in backup_csv(f, dir, now, n, MAX_BACKUPS)}
        ELSE {Save(f, b, captioned, captioned[1].keys, TRUE) :
                 b \in backup_csv(f, dir, now, n, MAX_BACKUPS)}

----------------------------------------------------------------------------
(* species_detector.process_species *)

RECURSIVE AppendedTwice(_, _, _)
\* updated_rows when the missing-image branch falls through to the append at
\* the end of the loop body: such a row is appended twice
AppendedTwice(rows, found, n) ==
    IF n = 0 THEN <<>>
    ELSE LET row == SetItem(rows[n], "species_tags", "")
         IN  AppendedTwice(rows, found, n - 1)
                 \o (IF found[n] THEN <<rows[n]>> ELSE <<row, row>>)

\* process_species without the `continue` of its missing-image branch
process_species_NoContinue(f, dir, loaded, found, tags) ==
    LET rows == read_csv_dict(f)
        tagged == [i \in DOMAIN rows |->
                     SetItem(rows[i], "species_tags", IF found[i] THEN tags[i] ELSE "")]
        updated_rows == AppendedTwice(tagged, found, Len(tagged))
    IN  IF rows = <<>>
        THEN {StageResult(f, dir, "No rows found in CSV.", FALSE, FALSE, FALSE)}
        ELSE IF ~loaded
        THEN {StageResult(f, dir, "RuntimeError", FALSE, FALSE, TRUE)}
        ELSE {Save(f, dir, updated_rows, updated_rows[1].keys, FALSE)}

\* tags[i]: ", ".join(detect_species(...)[:3]), "" when it raises
process_species(f, dir, loaded, found, tags) ==
    LET rows == read_csv_dict(f)
        updated_rows == [i \in DOMAIN rows |->
                           SetItem(rows[i], "species_tags",
                                   IF found[i] THEN tags[i] ELSE "")]
    IN  IF rows = <<>>
        THEN {StageResult(f, dir, "No rows found in CSV.", FALSE, FALSE, FALSE)}
        ELSE IF ~loaded
        THEN {StageResult(f, dir, "RuntimeError", FALSE, FALSE, TRUE)}
        ELSE {Save(f, dir, updated_rows, updated_rows[1].keys, FALSE)}

----------------------------------------------------------------------------
(* generate_ai_captions.generate_ai_captions *)

\* cap: the decoded caption, "" when captioning raises
AiCaptionedRow(r, found, cap) ==
    IF ~found THEN r ELSE SetItem(r, "caption_ai", cap)

generate_ai_captions(f, dir, now, n, loaded, found, caps) ==
    LET rows == read_csv_dict(f)
        captioned == [i \in DOMAIN rows |-> AiCaptionedRow(rows[i], found[i], caps[i])]
    IN  IF ~f.exists THEN {StageResult(f, dir, "ERROR: labels.csv not found", FALSE, FALSE, FALSE)}
        ELSE IF rows = <<>>
        THEN {StageResult(f, b, "No rows found in CSV.", TRUE, FALSE, FALSE) :
                 b \in backup_csv(f, dir, now, n, MAX_BACKUPS)}
        ELSE IF ~loaded
        THEN {StageResult(f, b, "OSError", TRUE, FALSE, TRUE) :
                 b \in backup_csv(f, dir, now, n, MAX_BACKUPS)}
        ELSE {Save(f, b, captioned, captioned[1].keys, TRUE) :
                 b \in backup_csv(f, dir, now, n, MAX_BACKUPS)}

----------------------------------------------------------------------------
(* The labelling stage (scripts.image_labeler as run_all calls it) *)

\* objs[i]: the labels the classifier gives for row i, "" for none
label_images(f, dir, now, n, loaded, found, objs) ==
    LET rows == read_csv_dict(f)
        labelled == [i \in DOMAIN rows |->
                       IF found[i] THEN SetItem(rows[i], "detected_objects", objs[i])
                       ELSE rows[i]]
    IN  IF ~f.exists \/ rows = <<>>
        THEN {StageResult(f, dir, "No rows found.", FALSE, FALSE, FALSE)}
        ELSE IF ~loaded
        THEN {StageResult(f, dir, "RuntimeError", FALSE, FALSE, TRUE)}
        ELSE {Save(f, b, labelled, labelled[1].keys, TRUE) :
                 b \in backup_csv(f, dir, now, n, MAX_BACKUPS)}

----------------------------------------------------------------------------
(* blog_generator.generate_blog and map_visualizer: readers of the store *)

\* group_by_day(rows): dict(sorted(daywise.items())), the "%Y-%m-%d" dates of
\* the rows whose timestamp parses, ascending (date ordinals stand for the keys)
group_by_day(rows) ==
    LET dates == {ParsedDt(rows[i]).ord : i \in {j \in DOMAIN rows : ParsedDt(rows[j]).ok}}
    IN  CHOOSE keys \in [1..Cardinality(dates) -> dates] :
            \A i, j \in DOMAIN keys : i < j => keys[i] < keys[j]

\* the day_number generate_blog gives the group of row i: i + 1 of
\* enumerate(daywise.items())
BlogDayNumber(rows, i) == IndexOf(group_by_day(rows), ParsedDt(rows[i]).ord)

generate_blog(f, dir) ==
    IF ~f.exists THEN {StageResult(f, dir, "ERROR: labels.csv not found", FALSE, FALSE, FALSE)}
    ELSE IF read_csv_dict(f) = <<>>
    THEN {StageResult(f, dir, "ERROR: No rows in CSV.", FALSE, FALSE, FALSE)}
    ELSE IF \A i \in DOMAIN f.rows : ~ParsedDt(read_csv_dict(f)[i]).ok
    THEN {StageResult(f, dir, "ERROR: No valid dates for grouping.", FALSE, FALSE, FALSE)}
    ELSE {StageResult(f, dir, "Blog written", FALSE, FALSE, FALSE)}

create_map(f, dir) == {StageResult(f, dir, "map", FALSE, FALSE, FALSE)}

----------------------------------------------------------------------------
(* Calls and their records *)

NoCall ==
    [stage |-> "none", status |-> "", before |-> NoFile,
     snapped |-> FALSE, wrote |-> FALSE, raised |-> FALSE]

Call(name, f, out) ==
    [stage |-> name, status |-> out.status, before |-> f,
     snapped |-> out.snapped, wrote |-> out.wrote, raised |-> out.raised]

Idle == [state |-> "PENDING", i |-> 0, run |-> 0]

NoArg == [rows |-> <<>>, fieldnames |-> <<>>]

Cell(f, i, col) == f.rows[i][IndexOf(f.header, col)]

----------------------------------------------------------------------------
(* The wall clock *)

Elapse ==
    /\ sec < MaxSec
    /\ sec' = sec + 1
    /\ UNCHANGED <<files, store, backups, orch, runlog, result, last, nsnap, retention, arg, outputs, matched>>

----------------------------------------------------------------------------
(* run_all.run_pipeline over a trip folder *)

\* The images a trip folder may hold.  What the analysis of an image gives
\* (address, face, captions, species) belongs to the image.
Images ==
    { [name |-> "a.jpg", datetime_original |-> "2024:08:16 09:00:00",
       gps_lat |-> "12.97", gps_lon |-> "77.59", address |-> "Bengaluru",
       face |-> TRUE, caption |-> "a dog", species |-> "Dog", caption_ai |-> "a dog on grass",
       objects |-> "an animal"],
      [name |-> "b.jpg", datetime_original |-> "",
       gps_lat |-> "", gps_lon |-> "", address |-> "",
       face |-> FALSE, caption |-> "", species |-> "", caption_ai |-> "",
       objects |-> ""],
      [name |-> "c.jpg", datetime_original |-> "2024:08:17 07:00:00",
       gps_lat |-> "12.97", gps_lon |-> "77.59", address |-> "",
       face |-> FALSE, caption |-> "a lake", species |-> "", caption_ai |-> "a lake at dawn",
       objects |-> "a lake"] }

\* species detection called before the caption stage
STAGES_Swapped ==
    << "scan_images", "assign_days", "fill_location", "process_faces", "label_images",
       "process_species", "fill_captions", "generate_ai_captions", "generate_blog",
       "create_map" >>

\* the stage calls of run_pipeline, in the order of its try block
STAGES ==
    << "scan_images", "assign_days", "fill_location", "process_faces", "label_images",
       "fill_captions", "process_species", "generate_ai_captions", "generate_blog",
       "create_map" >>

Entry(ev, k, fn) == [ev |-> ev, i |-> k, fn |-> fn]

\* the image file a row points to, by local_path
HasImage(path) == \E i \in DOMAIN files : files[i].name = path

ImageAt(path) == files[CHOOSE i \in DOMAIN files : files[i].name = path]

\* per-row collaborator answers for the rows of the store
RowPath(i) == Cell(store, i, "local_path")

Found == [i \in DOMAIN store.rows |-> HasImage(RowPath(i))]

Answer(field) ==
    [i \in DOMAIN store.rows |-> IF HasImage(RowPath(i)) THEN ImageAt(RowPath(i))[field] ELSE ""]

Faces ==
    [i \in DOMAIN store.rows |-> HasImage(RowPath(i)) /\ ImageAt(RowPath(i)).face]

InitPipeline ==
    /\ \E n \in 0..MaxFiles : \E imgs \in [1..n -> Images] :
        /\ \A i, j \in 1..n : i # j => imgs[i].name # imgs[j].name
        /\ files = imgs
    /\ store = NoFile
    /\ backups = {}
    /\ sec = 0
    /\ orch = Idle
    /\ runlog = <<>>
    /\ result = "none"
    /\ last = NoCall
    /\ nsnap = 0
    /\ retention = MAX_BACKUPS
    /\ arg = NoArg
    /\ outputs = {}
    /\ matched = <<>>

\* run_pipeline(trip_folder) is called: the log is opened, STEP 1 is announced
StartRun ==
    /\ orch.state \in {"PENDING", "DONE", "FAILED"}
    /\ orch.run < MaxRuns
    /\ orch' = [state |-> "RUNNING", i |-> 1, run |-> orch.run + 1]
    /\ runlog' = <<Entry("start", 0, "run_pipeline"), Entry("STEP", 1, STAGES[1])>>
    /\ result' = "running"
    /\ UNCHANGED <<files, store, backups, sec, last, nsnap, retention, arg, outputs, matched>>

\* the call of fn at position k returned: the next STEP is announced, or the
\* run completes
Returned(k, fn) ==
    IF k < Len(STAGES)
    THEN /\ orch' = [orch EXCEPT !.i = k + 1]
         /\ runlog' = runlog \o <<Entry("return", k, fn), Entry("STEP", k + 1, STAGES[k + 1])>>
         /\ result' = result
    ELSE /\ orch' = [orch EXCEPT !.state = "DONE"]
         /\ runlog' = runlog \o <<Entry("return", k, fn), Entry("OK", k, "run_pipeline")>>
         /\ result' = "returned"

\* a missing `raise` in the handler: the failure is logged and swallowed
Raised_Swallowed(k, fn) ==
    /\ orch' = [orch EXCEPT !.state = "FAILED"]
    /\ runlog' = runlog \o <<Entry("raise", k, fn), Entry("ERROR", k, "run_pipeline")>>
    /\ result' = "returned"

\* except Exception as e: logger.exception(...); raise
Raised(k, fn) ==
    /\ orch' = [orch EXCEPT !.state = "FAILED"]
    /\ runlog' = runlog \o <<Entry("raise", k, fn), Entry("ERROR", k, "run_pipeline")>>
    /\ result' = "raised"

\* stage name is at the orchestrator's position and its call ends as out
Stage(name, out) ==
    /\ orch.state = "RUNNING"
    /\ STAGES[orch.i] = name
    /\ store' = out.store
    /\ backups' = out.backups
    /\ last' = Call(name, store, out)
    /\ nsnap' = nsnap + (IF out.snapped THEN 1 ELSE 0)
    /\ IF out.raised THEN Raised(orch.i, name) ELSE Returned(orch.i, name)
    /\ UNCHANGED <<files, sec, retention, arg, outputs, matched>>

StageScan ==
    \E out \in scan_images(files, store, backups, sec, nsnap + 1) :
        Stage("scan_images", out)

StageDays ==
    \E out \in assign_days(store, backups, sec, nsnap + 1) :
        Stage("assign_days", out)

StageLocation ==
    \E out \in fill_location(store, backups, sec, nsnap + 1, Answer("address")) :
        Stage("fill_location", out)

StageFaces ==
    \E out \in process_faces(store, backups, sec, nsnap + 1, Found, Faces) :
        Stage("process_faces", out)

StageLabels ==
    \E loaded \in BOOLEAN :
    \E out \in label_images(store, backups, sec, nsnap + 1, loaded, Found, Answer("objects")) :
        Stage("label_images", out)

StageCaptions ==
    \E loaded \in BOOLEAN :
    \E out \in fill_captions(store, backups, sec, nsnap + 1, loaded, Found, Answer("caption")) :
        Stage("fill_captions", out)

StageSpecies ==
    \E loaded \in BOOLEAN :
    \E out \in process_species(store, backups, loaded, Found, Answer("species")) :
        Stage("process_species", out)

StageAiCaptions ==
    \E loaded \in BOOLEAN :
    \E out \in generate_ai_captions(store, backups, sec, nsnap + 1, loaded, Found,
                                    Answer("caption_ai")) :
        Stage("generate_ai_captions", out)

StageBlog ==
    \E out \in generate_blog(store, backups) : Stage("generate_blog", out)

StageMap ==
    \E out \in create_map(store, backups) : Stage("create_map", out)

Next ==
    \/ StartRun
    \/ StageScan
    \/ StageDays
    \/ StageLocation
    \/ StageFaces
    \/ StageLabels
    \/ StageCaptions
    \/ StageSpecies
    \/ StageAiCaptions
    \/ StageBlog
    \/ StageMap
    \/ Elapse

Init == InitPipeline

Spec == Init /\ [][Next]_vars

----------------------------------------------------------------------------
(* The stage scripts run on their own (their __main__ blocks), in any order *)

\* a stage script is run from the command line and ends as out
Script(name, out) ==
    /\ orch.state = "PENDING"
    /\ orch.run < MaxCalls
    /\ orch' = [orch EXCEPT !.run = orch.run + 1]
    /\ store' = out.store
    /\ backups' = out.backups
    /\ last' = Call(name, store, out)
    /\ nsnap' = nsnap + (IF out.snapped THEN 1 ELSE 0)
    /\ UNCHANGED <<files, sec, runlog, result, retention, arg, outputs, matched>>

ScanScript ==
    \E out \in scan_images(files, store, backups, sec, nsnap + 1) :
        Script("scan_images", out)

DaysScript ==
    \E out \in assign_days(store, backups, sec, nsnap + 1) :
        Script("assign_days", out)

LocationScript ==
    \E out \in fill_location(store, backups, sec, nsnap + 1, Answer("address")) :
        Script("fill_location", out)

FacesScript ==
    \E out \in process_faces(store, backups, sec, nsnap + 1, Found, Faces) :
        Script("process_faces", out)

CaptionsScript ==
    \E loaded \in BOOLEAN :
    \E out \in fill_captions(store, backups, sec, nsnap + 1, loaded, Found, Answer("caption")) :
        Script("fill_captions", out)

SpeciesScript ==
    \E loaded \in BOOLEAN :
    \E out \in process_species(store, backups, loaded, Found, Answer("species")) :
        Script("process_species", out)

AiCaptionsScript ==
    \E loaded \in BOOLEAN :
    \E out \in generate_ai_captions(store, backups, sec, nsnap + 1, loaded, Found,
                                    Answer("caption_ai")) :
        Script("generate_ai_captions", out)

NextStages ==
    \/ ScanScript
    \/ DaysScript
    \/ LocationScript
    \/ FacesScript
    \/ CaptionsScript
    \/ SpeciesScript
    \/ AiCaptionsScript
    \/ Elapse

SpecStages == InitPipeline /\ [][NextStages]_vars

----------------------------------------------------------------------------
(* A stage script run once more on a store that earlier runs left *)

\* the result of a call that has one possible outcome
TheOut(outs) == CHOOSE out \in outs : TRUE

\* the enrichment stages that src/ holds, in the order run_pipeline calls them
Enrichments ==
    << "assign_days", "fill_location", "process_faces", "fill_captions",
       "process_species", "generate_ai_captions" >>

\* the j-th enrichment script run on store f right after the scan of imgs:
\* every image is on disk and row i of f is image imgs[i]
EnrichStep(j, f, imgs) ==
    LET found == [i \in DOMAIN f.rows |-> TRUE]
        ans(field) == [i \in DOMAIN f.rows |-> imgs[i][field]]
        name == Enrichments[j]
    IN  IF name = "assign_days" THEN TheOut(assign_days(f, {}, 0, 1)).store
        ELSE IF name = "fill_location"
        THEN TheOut(fill_location(f, {}, 0, 1, ans("address"))).store
        ELSE IF name = "process_faces"
        THEN TheOut(process_faces(f, {}, 0, 1, found, ans("face"))).store
        ELSE IF name = "fill_captions"
        THEN TheOut(fill_captions(f, {}, 0, 1, TRUE, found, ans("caption"))).store
        ELSE IF name = "process_species"
        THEN TheOut(process_species(f, {}, TRUE, found, ans("species"))).store
        ELSE TheOut(generate_ai_captions(f, {}, 0, 1, TRUE, found, ans("caption_ai"))).store

RECURSIVE Enriched(_, _)
\* the store after scan_images and the first k enrichment scripts, run in the
\* order of run_pipeline
Enriched(imgs, k) ==
    IF k = 0 THEN TheOut(scan_images(imgs, NoFile, {}, 0, 1)).store
    ELSE EnrichStep(k, Enriched(imgs, k - 1), imgs)

InitRerun ==
    /\ \E n \in 0..MaxImages : \E imgs \in [1..n -> Images] : \E k \in 0..Len(Enrichments) :
       \E gone \in SUBSET {imgs[i].name : i \in 1..n} :
        /\ \A i, j \in 1..n : i # j => imgs[i].name # imgs[j].name
        /\ store = Enriched(imgs, k)
        /\ files = SelectSeq(imgs, LAMBDA img : img.name \notin gone)
    /\ backups = {}
    /\ sec = 0
    /\ orch = Idle
    /\ runlog = <<>>
    /\ result = "none"
    /\ last = NoCall
    /\ nsnap = 0
    /\ retention = MAX_BACKUPS
    /\ arg = NoArg
    /\ outputs = {}
    /\ matched = <<>>

\* what a collaborator may answer for the rows this time: what the image
\* shows, or nothing (the call fails or finds nothing)
ImageNamed(path) == CHOOSE img \in Images : img.name = path

Retry(field) ==
    {a \in [DOMAIN store.rows -> {img[field] : img \in Images} \cup {""}] :
        \A i \in DOMAIN store.rows :
            a[i] \in {"", IF \E img \in Images : img.name = RowPath(i)
                          THEN ImageNamed(RowPath(i))[field] ELSE ""}}

\* a script is run once on the store
Rerun(name, out) ==
    /\ last.stage = "none"
    /\ store' = out.store
    /\ backups' = out.backups
    /\ last' = Call(name, store, out)
    /\ nsnap' = nsnap + (IF out.snapped THEN 1 ELSE 0)
    /\ UNCHANGED <<files, sec, orch, runlog, result, retention, arg, outputs, matched>>

RerunScan ==
    \E out \in scan_images(files, store, backups, sec, nsnap + 1) :
        Rerun("scan_images", out)

RerunDays ==
    \E out \in assign_days(store, backups, sec, nsnap + 1) :
        Rerun("assign_days", out)

RerunLocation ==
    \E geo \in Retry("address") :
    \E out \in fill_location(store, backups, sec, nsnap + 1, geo) :
        Rerun("fill_location", out)

RerunFaces ==
    \E face \in [DOMAIN store.rows -> BOOLEAN] :
    \E out \in process_faces(store, backups, sec, nsnap + 1, Found, face) :
        Rerun("process_faces", out)

RerunCaptions ==
    \E loaded \in BOOLEAN : \E caps \in Retry("caption") :
    \E out \in fill_captions(store, backups, sec, nsnap + 1, loaded, Found, caps) :
        Rerun("fill_captions", out)

RerunSpecies ==
    \E loaded \in BOOLEAN : \E tags \in Retry("species") :
    \E out \in process_species(store, backups, loaded, Found, tags) :
        Rerun("process_species", out)

RerunAiCaptions ==
    \E loaded \in BOOLEAN : \E caps \in Retry("caption_ai") :
    \E out \in generate_ai_captions(store, backups, sec, nsnap + 1, loaded, Found, caps) :
        Rerun("generate_ai_captions", out)

NextRerun ==
    \/ RerunScan
    \/ RerunDays
    \/ RerunLocation
    \/ RerunFaces
    \/ RerunCaptions
    \/ RerunSpecies
    \/ RerunAiCaptions

SpecRerun == InitRerun /\ [][NextRerun]_vars

----------------------------------------------------------------------------
(* Properties of the orchestrator *)

\* C1: if a stage of run_pipeline raises, the failure is logged, the exception
\* is re-raised to the caller, and no later stage is started in that run.
C1_FailFast ==
    \A p \in DOMAIN runlog :
        runlog[p].ev = "raise" =>
            /\ p + 1 = Len(runlog)
            /\ runlog[p + 1].ev = "ERROR"
            /\ orch.state = "FAILED"
            /\ result = "raised"

\* a stage before the last one raised
C1_Witness ==
    /\ orch.state = "FAILED"
    /\ result = "raised"
    /\ last.raised
    /\ orch.i < Len(STAGES)

ClaimedOrder ==
    << "scan_images", "assign_days", "fill_location", "process_faces", "label_images",
       "fill_captions", "process_species", "generate_ai_captions", "generate_blog",
       "create_map" >>

Steps == SelectSeq(runlog, LAMBDA e : e.ev = "STEP")

Ends == SelectSeq(runlog, LAMBDA e : e.ev \in {"return", "raise"})

C9_ZeroValidIsHardError ==
    (/\ last.stage = "assign_days"
     /\ Len(last.before.rows) > 0
     /\ \A i \in DOMAIN last.before.rows : ~ParsedDt(read_csv_dict(last.before)[i]).ok
     /\ orch.run > 0)
        => /\ orch.state = "FAILED"
           /\ result = "raised"
           /\ store = last.before

----------------------------------------------------------------------------
(* Properties of the stages *)

\* C3: every stage that overwrites the store took a snapshot of it first, so
\* that at its write a snapshot equal to the store as it was before the stage
\* exists.
C3_BackupBeforeWrite ==
    (last.wrote /\ last.before.exists) =>
        /\ last.snapped
        /\ \E s \in backups :
              s.header = last.before.header /\ s.rows = last.before.rows

----------------------------------------------------------------------------
(* Properties of a stage run on a store that earlier runs left *)

IsPrefix(a, b) == Len(a) <= Len(b) /\ \A i \in DOMAIN a : b[i] = a[i]

\* the local_path identities of a store, in row order
Paths(f) == [i \in DOMAIN f.rows |-> Cell(f, i, "local_path")]

\* the call just made was an enrichment stage
Enriching == last.stage \in Range(Enrichments)

\* the columns a stage is there to fill
Target(stage) ==
    IF stage = "assign_days" THEN {"day_number"}
    ELSE IF stage = "fill_location" THEN {"location_inferred"}
    ELSE IF stage = "process_faces" THEN {"faces_detected"}
    ELSE IF stage = "fill_captions" THEN {"caption", "caption_samples"}
    ELSE IF stage = "process_species" THEN {"species_tags"}
    ELSE IF stage = "generate_ai_captions" THEN {"caption_ai"}
    ELSE {}

\* C11: whatever stage ran on an existing store (a repeated scan included),
\* the header the store had before is a prefix of the header it has after:
\* every column keeps its position, columns are only appended.
C11_SchemaAppendOnly ==
    (last.stage # "none" /\ last.before.exists /\ store.exists)
        => IsPrefix(last.before.header, store.header)

\* C12: after a run of an enrichment stage that wrote the store, every record
\* the store held before is still there, on its row, and every column other
\* than the stage's target columns holds the value it held before.
C12_MergeFrame ==
    (Enriching /\ last.wrote)
        => /\ Len(store.rows) = Len(last.before.rows)
           /\ \A i \in DOMAIN last.before.rows :
              \A col \in Range(last.before.header) \ Target(last.stage) :
                  Cell(store, i, col) = Cell(last.before, i, col)

\* C13: after a run of an enrichment stage every local_path of the store was
\* in the store before the run, and no two records share a local_path.
C13_OnlyScannerIntroduces ==
    (Enriching /\ store.exists)
        => /\ Range(Paths(store)) \subseteq Range(Paths(last.before))
           /\ \A i, j \in DOMAIN store.rows : i # j => Paths(store)[i] # Paths(store)[j]

\* an enrichment stage went over two records or more, one of them without its
\* image, and saved the store
C13_Witness ==
    /\ Enriching
    /\ last.status = "saved"
    /\ Len(store.rows) >= 2
    /\ \E i \in DOMAIN store.rows : ~Found[i]

\* C27: after any run of an enrichment stage, whether it returned or raised
\* (during its save included), the store holds the records it held before the
\* run, in the same order.
C27_NoRecordsLost ==
    (Enriching /\ last.before.exists)
        => (store.exists /\ Paths(store) = Paths(last.before))

\* the columns the enrichment stages and the user fill in
EnrichmentColumns ==
    UNION {Target(Enrichments[k]) : k \in DOMAIN Enrichments} \cup {"notes", "people_tags"}

\* C28: when the scan stage of a further run has rewritten a store, every
\* record that is still there holds, in every enrichment column the store had,
\* the value it held before the scan.
C28_RescanKeepsEnrichment ==
    (last.stage = "scan_images" /\ last.before.exists /\ store.exists)
        => \A i \in DOMAIN last.before.rows : \A j \in DOMAIN store.rows :
              Paths(last.before)[i] = Paths(store)[j]
                  => \A col \in EnrichmentColumns \cap Range(last.before.header) :
                        /\ col \in Range(store.header)
                        /\ Cell(store, j, col) = Cell(last.before, i, col)

\* C14: when an enrichment stage is run on a store whose target column is
\* non-empty for every record, the store's records are the same afterwards.
C14_SkipIfPresent ==
    (/\ Enriching
     /\ last.before.rows # <<>>
     /\ \A i \in DOMAIN last.before.rows :
        \A col \in Target(last.stage) \cap Range(last.before.header) :
            Cell(last.before, i, col) # "")
        => (store.header = last.before.header /\ store.rows = last.before.rows)

----------------------------------------------------------------------------
(* The date and day predicates of query_images, called on one field value *)

\* the texts between the ':' of a --date filter
DateParts == {"2024-08-16", "2024-08-17", "2024-09-02", "", "soon"}

\* the texts between the ':' of a --day filter
IntParts == {"1", "2", "3", "", "x"}

\* values of the day_number column: what assign_days writes
DayTexts == {"", "1", "2", "3", "10"}

RECURSIVE Join(_, _)
\* sep.join(parts)
Join(parts, sep) ==
    IF Len(parts) = 1 THEN parts[1]
    ELSE Join(SubSeq(parts, 1, Len(parts) - 1), sep) \o sep \o parts[Len(parts)]

\* the filter is given on the command line (an empty one counts as not given)
\* and a row of the store holds the value val in the column it is about
InitMatch ==
    /\ files = <<>>
    /\ store = NoFile
    /\ backups = {}
    /\ sec = 0
    /\ orch = Idle
    /\ runlog = <<>>
    /\ result = "none"
    /\ last = NoCall
    /\ nsnap = 0
    /\ retention = MAX_BACKUPS
    /\ outputs = {}
    /\ matched = <<>>
    /\ \E n \in 1..MaxParts :
        \/ \E parts \in [1..n -> DateParts] : \E val \in TimestampTexts :
            /\ Join(parts, ":") # ""
            /\ arg = [fn |-> "matches_date", val |-> val, parts |-> parts,
                      flt |-> Join(parts, ":")]
        \/ \E parts \in [1..n -> IntParts] : \E val \in DayTexts :
            /\ Join(parts, ":") # ""
            /\ arg = [fn |-> "matches_range", val |-> val, parts |-> parts,
                      flt |-> Join(parts, ":")]

\* the record of a predicate call
Matched(fn, r) ==
    [stage |-> fn,
     status |-> IF r.raised THEN "raised" ELSE IF r.val THEN "True" ELSE "False",
     before |-> NoFile, snapped |-> FALSE, wrote |-> FALSE, raised |-> r.raised]

\* filters.get("date") and not matches_date(row.get("datetime_original"), filters["date"])
MatchDate ==
    /\ last.stage = "none"
    /\ arg.fn = "matches_date"
    /\ last' = Matched("matches_date", matches_date(arg.val, arg.flt))
    /\ UNCHANGED <<files, store, backups, sec, orch, runlog, result, nsnap, retention, arg,
                   outputs, matched>>

\* the same call in src/image_query_tool.py
MatchDateTop ==
    /\ last.stage = "none"
    /\ arg.fn = "matches_date"
    /\ last' = Matched("matches_date", matches_date_Top(arg.val, arg.flt))
    /\ UNCHANGED <<files, store, backups, sec, orch, runlog, result, nsnap, retention, arg,
                   outputs, matched>>

\* filters.get("day") and not matches_range(row.get("day_number"), filters["day"])
MatchRange ==
    /\ last.stage = "none"
    /\ arg.fn = "matches_range"
    /\ last' = Matched("matches_range", matches_range(arg.val, arg.flt))
    /\ UNCHANGED <<files, store, backups, sec, orch, runlog, result, nsnap, retention, arg,
                   outputs, matched>>

NextMatch == MatchDate \/ MatchDateTop \/ MatchRange

SpecMatch == InitMatch /\ [][NextMatch]_vars

----------------------------------------------------------------------------
(* Properties of the date and day predicates *)

\* the calendar dates the filter texts name
FilterDate ==
    "2024-08-16" :> <<2024, 8, 16>> @@
    "2024-08-17" :> <<2024, 8, 17>> @@
    "2024-09-02" :> <<2024, 9, 2>>

\* the integers the texts name
IntText == "1" :> 1 @@ "2" :> 2 @@ "3" :> 3 @@ "10" :> 10

\* the timestamp text has a date component that is a calendar date
HasDate(ts) ==
    /\ ts \in DOMAIN TimestampFields
    /\ TimestampFields[ts][1] \in 1..9999
    /\ TimestampFields[ts][2] \in 1..12
    /\ TimestampFields[ts][3] \in 1..DaysInMonth(TimestampFields[ts][1], TimestampFields[ts][2])

DayOf(t) == toordinal(t[1], t[2], t[3])

\* C16: a single date D accepts exactly the records whose date component is
\* D; a range S:E accepts exactly the records whose date component d has
\* S <= d <= E, whatever the time of day; a record whose timestamp is empty
\* or has no parseable date component is rejected.
C16_DatePredicate ==
    (/\ last.stage = "matches_date"
     /\ Len(arg.parts) <= 2
     /\ \A i \in DOMAIN arg.parts : arg.parts[i] \in DOMAIN FilterDate)
        => LET d == DayOf(TimestampFields[arg.val])
               lo == DayOf(FilterDate[arg.parts[1]])
               hi == DayOf(FilterDate[arg.parts[Len(arg.parts)]])
           IN  last.status = IF HasDate(arg.val) /\ lo <= d /\ d <= hi THEN "True" ELSE "False"

\* the range 2024-08-16:2024-08-17 accepted a record taken on the last day at
\* seven in the morning
C16_Witness ==
    /\ last.stage = "matches_date"
    /\ arg.flt = "2024-08-16:2024-08-17"
    /\ arg.val = "2024:08:17 07:00:00"
    /\ last.status = "True"

\* the filter is malformed: a bound that is no date / no integer, a missing
\* bound, or more than one ':'
Malformed(parts, wellformed) ==
    Len(parts) > 2 \/ \E i \in DOMAIN parts : parts[i] \notin wellformed

\* C17: called with a malformed filter, the date predicate and the day
\* predicate return False for every field value and raise nothing.
C17_MalformedNeverThrows ==
    /\ (last.stage = "matches_date" /\ Malformed(arg.parts, DOMAIN FilterDate))
            => last.status = "False"
    /\ (last.stage = "matches_range" /\ Malformed(arg.parts, {"1", "2", "3"}))
            => last.status = "False"

\* C18: a filter low:high accepts exactly the records whose day_number is an
\* integer v with low <= v <= high (an empty day_number is rejected); a filter
\* without ':' accepts exactly the records whose day_number is the same string.
C18_IntegerRange ==
    /\ (/\ last.stage = "matches_range"
        /\ Len(arg.parts) = 2
        /\ \A i \in DOMAIN arg.parts : arg.parts[i] \in {"1", "2", "3"})
            => last.status =
                  IF /\ arg.val \in DOMAIN IntText
                     /\ IntText[arg.parts[1]] <= IntText[arg.val]
                     /\ IntText[arg.val] <= IntText[arg.parts[2]]
                  THEN "True" ELSE "False"
    /\ (last.stage = "matches_range" /\ Len(arg.parts) = 1)
            => last.status = IF arg.val = arg.flt THEN "True" ELSE "False"

\* day_number "2" was accepted by the filter 1:2, its upper bound
C18_Witness ==
    /\ last.stage = "matches_range"
    /\ arg.flt = "1:2"
    /\ arg.val = "2"
    /\ last.status = "True"

----------------------------------------------------------------------------
(* image_query_tool.py run on the store a pipeline run left *)

\* the predicates of the command line, with a value each may be given
FilterValue ==
    [text |-> "DOG", species |-> "dog", people |-> "x", location |-> "TRIP",
     device |-> "x", date |-> "2024-08-16:2024-08-17", day |-> "2", notes |-> "x",
     ext |-> ".JPG"]

FilterNames == DOMAIN FilterValue \cup {"faces"}

NotGiven == [given |-> FALSE, n |-> 0]

\* the keyword arguments __main__ passes: None (here "", FALSE, NotGiven) for
\* an option that was not given
Filters(given, limit, export) ==
    [text     |-> IF "text" \in given THEN FilterValue.text ELSE "",
     species  |-> IF "species" \in given THEN FilterValue.species ELSE "",
     faces    |-> "faces" \in given,
     people   |-> IF "people" \in given THEN FilterValue.people ELSE "",
     location |-> IF "location" \in given THEN FilterValue.location ELSE "",
     device   |-> IF "device" \in given THEN FilterValue.device ELSE "",
     date     |-> IF "date" \in given THEN FilterValue.date ELSE "",
     day      |-> IF "day" \in given THEN FilterValue.day ELSE "",
     notes    |-> IF "notes" \in given THEN FilterValue.notes ELSE "",
     ext      |-> IF "ext" \in given THEN FilterValue.ext ELSE "",
     limit    |-> limit,
     export   |-> export]

InitQuery ==
    /\ \E n \in 0..MaxImages : \E imgs \in [1..n -> Images] :
        /\ \A i, j \in 1..n : i # j => imgs[i].name # imgs[j].name
        /\ files = imgs
        /\ store = Enriched(imgs, Len(Enrichments))
    /\ backups = {}
    /\ sec = 0
    /\ orch = Idle
    /\ runlog = <<>>
    /\ result = "none"
    /\ last = NoCall
    /\ nsnap = 0
    /\ retention = MAX_BACKUPS
    /\ outputs = {}
    /\ matched = <<>>
    /\ \E given \in SUBSET FilterNames :
       \E limit \in {NotGiven} \cup {[given |-> TRUE, n |-> k] : k \in 0..MaxLimit} :
       \E export \in {"", "out.csv"} :
        /\ Cardinality(given) <= MaxFilters
        /\ arg = Filters(given, limit, export)

\* results = query_images(csv_path, log_path, text=args.text, ...)
QueryImages ==
    /\ last.stage = "none"
    /\ \E q \in {query_images(store, outputs, arg)} :
           /\ matched' = q.matched
           /\ outputs' = q.outputs
           /\ result' = IF q.error = "" THEN "returned" ELSE "raised"
           /\ last' = [stage |-> "query_images",
                       status |-> IF q.error = "" THEN "returned" ELSE q.error,
                       before |-> store, snapped |-> FALSE, wrote |-> FALSE,
                       raised |-> q.error # ""]
    /\ UNCHANGED <<files, store, backups, sec, orch, runlog, nsnap, retention, arg>>

\* results = query_images(csv_path=args.csv, text=args.text, ...) of
\* src/image_query_tool.py
QueryImagesTop ==
    /\ last.stage = "none"
    /\ \E q \in {query_images_Top(store, outputs, arg)} :
           /\ matched' = q.matched
           /\ outputs' = q.outputs
           /\ result' = IF q.error = "" THEN "returned" ELSE "raised"
           /\ last' = [stage |-> "query_images_Top",
                       status |-> IF q.error = "" THEN "returned" ELSE q.error,
                       before |-> store, snapped |-> FALSE, wrote |-> FALSE,
                       raised |-> q.error # ""]
    /\ UNCHANGED <<files, store, backups, sec, orch, runlog, nsnap, retention, arg>>

NextQuery == QueryImages \/ QueryImagesTop

SpecQuery == InitQuery /\ [][NextQuery]_vars

----------------------------------------------------------------------------
(* Properties of query_images *)

\* the record satisfies the predicate of that name with the value given, as
\* the tool that was run tests it
Satisfies(row, name) ==
    IF name = "text"
    THEN \E col \in {"caption", "caption_ai", "caption_samples"} : InColumn(row, col, arg.text)
    ELSE IF name = "species" THEN InColumn(row, "species_tags", arg.species)
    ELSE IF name = "faces"
    THEN (IF last.stage = "query_images_Top" THEN strip(Get(row, "faces_detected")) # ""
          ELSE Get(row, "faces_detected") # "")
    ELSE IF name = "people" THEN InColumn(row, "people_tags", arg.people)
    ELSE IF name = "location" THEN InColumn(row, "location_inferred", arg.location)
    ELSE IF name = "device" THEN InColumn(row, "device_model", arg.device)
    ELSE IF name = "date"
    THEN (IF last.stage = "query_images_Top"
          THEN matches_date_Top(Get(row, "datetime_original"), arg.date).val
          ELSE matches_date(Get(row, "datetime_original"), arg.date).val)
    ELSE IF name = "day" THEN matches_range(Get(row, "day_number"), arg.day).val
    ELSE IF name = "notes" THEN InColumn(row, "notes", arg.notes)
    ELSE \E e \in Range(split(arg.ext, ",")) :
             endswith(lower(Get(row, "image_name")),
                      IF last.stage = "query_images_Top" THEN strip(e) ELSE lower(strip(e)))

\* the predicates the query was given
Supplied ==
    {name \in DOMAIN FilterValue : arg[name] # ""} \cup (IF arg.faces THEN {"faces"} ELSE {})

\* the records of the store that satisfy every supplied predicate, in store order
AllMatches ==
    SelectSeq(read_csv_dict(store), LAMBDA row : \A name \in Supplied : Satisfies(row, name))

Queried == last.stage \in {"query_images", "query_images_Top"}

\* C15: a query without cap and export returns exactly the records of the
\* store that satisfy every supplied predicate, in store order (every record
\* when no predicate is supplied).
C15_PureConjunction ==
    (Queried /\ ~arg.limit.given /\ arg.export = "")
        => (result = "returned" /\ matched = AllMatches)

\* a query with two predicates returned some records of the store and left
\* out a record that satisfies one of the two only
C15_Witness ==
    /\ Queried /\ ~arg.limit.given /\ arg.export = ""
    /\ Cardinality(Supplied) = 2
    /\ matched # <<>>
    /\ \E i \in DOMAIN store.rows : \E name \in Supplied :
        /\ Satisfies(read_csv_dict(store)[i], name)
        /\ \A j \in DOMAIN matched : matched[j] # read_csv_dict(store)[i]

\* C19: a query given the cap L (and no export) returns at most L records:
\* the first L of the matching records in store order, all of them when
\* there are fewer.
C19_ResultCap ==
    (Queried /\ arg.limit.given /\ arg.export = "")
        => /\ Len(matched) <= arg.limit.n
           /\ matched = SubSeq(AllMatches, 1,
                                IF arg.limit.n <= Len(AllMatches) THEN arg.limit.n
                                ELSE Len(AllMatches))

\* C20: when an export target is given and at least one record matches, the
\* query returns the matches, and the outputs folder holds a file of that
\* name whose header is the keys of the first match and whose lines are the
\* matched records in order.
C20_Export ==
    (Queried /\ arg.export # "" /\ AllMatches # <<>>)
        => /\ result = "returned"
           /\ matched # <<>>
           /\ \E e \in outputs :
                /\ e.name = arg.export
                /\ e.kind = "file"
                /\ e.header = matched[1].keys
                /\ e.rows = [i \in DOMAIN matched |-> dict_to_list(matched[i], matched[1].keys)]

\* C29: on a store process_faces has gone over, a query with the faces flag
\* returns only records whose faces_detected is 1, never one the stage marked
\* 0 (no face).
C29_FacesFilter ==
    (Queried /\ arg.faces /\ result = "returned")
        => \A k \in DOMAIN matched : Get(matched[k], "faces_detected") = "1"

----------------------------------------------------------------------------
(* trip_day_assigner.py run on its own on a store *)

StaleDays == {"", "7"}

LegacyHeader == <<"image_name", "local_path", "datetime_original">>

ImageName(i) == "img" \o ToString(i) \o ".jpg"

\* a line of a store: identity, timestamp and day number, other cells empty
Line(header, i, ts, day) ==
    [j \in 1..Len(header) |->
        IF header[j] \in {"image_name", "local_path"} THEN ImageName(i)
        ELSE IF header[j] = "datetime_original" THEN ts
        ELSE IF header[j] = "day_number" THEN day
        ELSE ""]

DayStore(header, n, ts, day) ==
    [exists |-> TRUE, header |-> header, mtime |-> 1,
     rows |-> [i \in 1..n |-> Line(header, i, ts[i], day[i])]]

InitDays ==
    /\ files = <<>>
    /\ \E n \in 0..MaxRows : \E ts \in [1..n -> TimestampTexts] :
        \/ \E day \in StaleDays : store = DayStore(CSV_HEADERS, n, ts, [i \in 1..n |-> day])
        \/ store = DayStore(LegacyHeader, n, ts, [i \in 1..n |-> ""])
    /\ backups = {}
    /\ sec = 0
    /\ orch = Idle
    /\ runlog = <<>>
    /\ result = "none"
    /\ last = NoCall
    /\ nsnap = 0
    /\ retention = MAX_BACKUPS
    /\ arg = NoArg
    /\ outputs = {}
    /\ matched = <<>>

AssignDaysCLI ==
    /\ last.stage = "none"
    /\ \E out \in assign_days(store, backups, sec, nsnap + 1) :
        /\ store' = out.store
        /\ backups' = out.backups
        /\ last' = Call("assign_days", store, out)
        /\ nsnap' = nsnap + (IF out.snapped THEN 1 ELSE 0)
    /\ UNCHANGED <<files, sec, orch, runlog, result, retention, arg, outputs, matched>>

NextDays == AssignDaysCLI

SpecDays == InitDays /\ [][NextDays]_vars

----------------------------------------------------------------------------
(* Properties of day assignment *)

\* int(text) for the texts str(n) writes
int(s) == CHOOSE n \in 0..MaxDay : ToString(n) = s

DaysSaved == last.stage = "assign_days" /\ last.status = "saved"

\* rows of the store before the call whose timestamp parses
ValidRows(f) == {i \in DOMAIN f.rows : ParsedDt(read_csv_dict(f)[i]).ok}

DateOf(f, i) == ParsedDt(read_csv_dict(f)[i]).ord

\* C6: after assign_days, every record whose datetime_original parses has
\* day_number = (its calendar date - the earliest calendar date among the
\* records with a valid timestamp) + 1; so every such value is an integer >= 1
\* and some record has day_number 1.
C6_DayNumberFormula ==
    DaysSaved =>
        LET b == last.before
            first == Min({DateOf(b, i) : i \in ValidRows(b)})
        IN  /\ Len(store.rows) = Len(b.rows)
            /\ \A i \in ValidRows(b) :
                /\ Cell(store, i, "day_number") = ToString(DateOf(b, i) - first + 1)
                /\ int(Cell(store, i, "day_number")) >= 1
            /\ \E i \in ValidRows(b) : Cell(store, i, "day_number") = "1"

\* the scenario of the specification: 16th 09:00, 16th 18:00, 17th 07:00 -> 1, 1, 2
C6_Witness ==
    /\ DaysSaved
    /\ Len(store.rows) = 3
    /\ Cell(store, 1, "datetime_original") = "2024:08:16 09:00:00"
    /\ Cell(store, 2, "datetime_original") = "2024:08:16 18:00:00"
    /\ Cell(store, 3, "datetime_original") = "2024:08:17 07:00:00"
    /\ Cell(store, 1, "day_number") = "1"
    /\ Cell(store, 2, "day_number") = "1"
    /\ Cell(store, 3, "day_number") = "2"

\* C7: after assign_days, for two records with valid timestamps an earlier
\* calendar date never has the larger day_number, and records of the same
\* calendar date have the same day_number whatever their time of day.
C7_DayMonotonic ==
    DaysSaved =>
        LET b == last.before
        IN  \A i, j \in ValidRows(b) :
                /\ DateOf(b, i) < DateOf(b, j) =>
                      int(Cell(store, i, "day_number")) <= int(Cell(store, j, "day_number"))
                /\ DateOf(b, i) = DateOf(b, j) =>
                      Cell(store, i, "day_number") = Cell(store, j, "day_number")

\* two records of one date at different times, a third of an earlier date
C7_Witness ==
    /\ DaysSaved
    /\ \E i, j, k \in ValidRows(last.before) :
        /\ DateOf(last.before, i) = DateOf(last.before, j)
        /\ Cell(store, i, "datetime_original") # Cell(store, j, "datetime_original")
        /\ DateOf(last.before, k) < DateOf(last.before, i)
        /\ int(Cell(store, k, "day_number")) < int(Cell(store, i, "day_number"))

\* C8: after assign_days has written the store, every record whose
\* datetime_original is blank or unparseable has an empty day_number,
\* whatever day_number it held before.
C8_UnknownStaysUnknown ==
    DaysSaved =>
        \A i \in DOMAIN last.before.rows :
            i \notin ValidRows(last.before) => Cell(store, i, "day_number") = ""

\* a record without a valid timestamp that held day number 7 before the run
C8_Witness ==
    /\ DaysSaved
    /\ \E i \in DOMAIN last.before.rows :
        /\ i \notin ValidRows(last.before)
        /\ Cell(last.before, i, "day_number") = "7"
        /\ Cell(store, i, "day_number") = ""

\* C30: for every record with a valid timestamp, the number generate_blog
\* gives the record's day group (groups by calendar date, ascending, numbered
\* 1, 2, ...) is the day_number assign_days stored for the record.
C30_DayNumbersAgree ==
    DaysSaved =>
        \A i \in ValidRows(store) :
            ToString(BlogDayNumber(read_csv_dict(store), i)) = Cell(store, i, "day_number")

----------------------------------------------------------------------------
(* backup_csv called again and again on one store, which stages rewrite *)

InitBackup ==
    /\ files = <<>>
    /\ store = DayStore(CSV_HEADERS, 1, <<"2024:08:16 09:00:00">>, <<"">>)
    /\ backups = {}
    /\ sec = 0
    /\ orch = Idle
    /\ runlog = <<>>
    /\ result = "none"
    /\ last = NoCall
    /\ nsnap = 0
    /\ retention \in 1..MAX_BACKUPS
    /\ arg = NoArg
    /\ outputs = {}
    /\ matched = <<>>

\* backup_csv(labels_csv, max_backups=retention)
BackupCsv ==
    /\ nsnap < MaxOps
    /\ \E b \in backup_csv(store, backups, sec, nsnap + 1, retention) :
        /\ backups' = b
        /\ last' = Call("backup_csv", store,
                        StageResult(store, b, "Created backup", TRUE, FALSE, FALSE))
    /\ nsnap' = nsnap + 1
    /\ UNCHANGED <<files, store, sec, orch, runlog, result, retention, arg, outputs, matched>>

\* a stage saves the store: write_csv_dict(labels_csv, rows, rows[0].keys())
RewriteStore ==
    /\ store.mtime <= MaxWrites
    /\ LET rows == read_csv_dict(store)
           out == Save(store, backups, rows, rows[1].keys, FALSE)
       IN  /\ store' = out.store
           /\ last' = Call("write_csv_dict", store, out)
    /\ UNCHANGED <<files, backups, sec, orch, runlog, result, nsnap, retention, arg, outputs, matched>>

NextBackup == BackupCsv \/ RewriteStore \/ Elapse

SpecBackup == InitBackup /\ [][NextBackup]_vars

----------------------------------------------------------------------------
(* Properties of backup rotation *)

MinOf(a, b) == IF a <= b THEN a ELSE b

Born(dir) == {s.born : s \in dir}

\* C4: after N snapshot operations with retention count K exactly min(N, K)
\* snapshots exist, and they are the min(N, K) most recently created ones.
C4_RotationBound ==
    /\ Cardinality(backups) = MinOf(nsnap, retention)
    /\ Born(backups) = (nsnap - MinOf(nsnap, retention) + 1)..nsnap

\* C5: the snapshot a backup_csv call creates exists when the call returns,
\* and rotation never deletes a snapshot while it keeps an older one.
C5_NewestNeverDeleted ==
    [][nsnap' = nsnap + 1 =>
          /\ \E s \in backups' : s.born = nsnap'
          /\ \A d \in backups \ backups' :
                d.name # sec => \A k \in backups' : k.born > d.born]_vars

----------------------------------------------------------------------------
(* write_csv_dict called on its own with records and a schema *)

Columns == <<"local_path", "caption", "caption_samples">>

CellTexts == {"", "x"}

\* a dict over the columns picked by keep, in the order of Columns
DictOver(keep, val) ==
    [keys |-> SelectSeq(Columns, LAMBDA c : c \in keep),
     at   |-> [c \in keep |-> val[c]]]

\* sequences of distinct columns
Schemas ==
    {sch \in UNION {[1..n -> Range(Columns)] : n \in 1..Len(Columns)} :
        \A i, j \in DOMAIN sch : i # j => sch[i] # sch[j]}

InitCsv ==
    /\ files = <<>>
    /\ store = NoFile
    /\ backups = {}
    /\ sec = 0
    /\ orch = Idle
    /\ runlog = <<>>
    /\ result = "none"
    /\ last = NoCall
    /\ nsnap = 0
    /\ retention = MAX_BACKUPS
    /\ outputs = {}
    /\ matched = <<>>
    /\ \E n \in 0..MaxCsvRows : \E keep \in [1..n -> SUBSET Range(Columns)] :
       \E val \in [1..n -> [Range(Columns) -> CellTexts]] :
       \E sch \in Schemas :
        /\ \A i \in 1..n : \A c \in Range(Columns) \ keep[i] : val[i][c] = ""
        /\ arg = [rows |-> [i \in 1..n |-> DictOver(keep[i], val[i])], fieldnames |-> sch]

\* write_csv_dict(path, arg.rows, arg.fieldnames)
WriteCsv ==
    /\ last.stage = "none"
    /\ LET out == Save(store, backups, arg.rows, arg.fieldnames, FALSE)
       IN  /\ store' = out.store
           /\ last' = Call("write_csv_dict", store, out)
    /\ UNCHANGED <<files, backups, sec, orch, runlog, result, nsnap, retention, arg, outputs, matched>>

NextCsv == WriteCsv

SpecCsv == InitCsv /\ [][NextCsv]_vars

\* C10: write_csv_dict writes every record with exactly the schema's columns
\* in schema order; a column of a record that is not in the schema is dropped
\* and the save succeeds; a schema column a record lacks is written as "".
C10_SaveIsProjection ==
    last.stage = "write_csv_dict" =>
        /\ ~last.raised
        /\ store.header = arg.fieldnames
        /\ Len(store.rows) = Len(arg.rows)
        /\ \A i \in DOMAIN store.rows : \A j \in DOMAIN arg.fieldnames :
              store.rows[i][j] =
                  IF arg.fieldnames[j] \in Range(arg.rows[i].keys)
                  THEN arg.rows[i].at[arg.fieldnames[j]]
                  ELSE ""

----------------------------------------------------------------------------
(* write_csv_dict(path, read_csv_dict(path), header) on a file of any lines *)

\* the lines of at most n cells
Lines(n) == UNION {[1..k -> CellTexts] : k \in 0..n}

\* the files: a header of distinct columns, and lines that may be blank, lack
\* cells or have a surplus cell
InitRoundTrip ==
    /\ files = <<>>
    /\ \E w \in 1..Len(Columns) : \E n \in 0..MaxCsvRows :
       \E lines \in [1..n -> Lines(w + 1)] :
        store = [exists |-> TRUE, header |-> SubSeq(Columns, 1, w), rows |-> lines,
                 mtime |-> 1]
    /\ backups = {}
    /\ sec = 0
    /\ orch = Idle
    /\ runlog = <<>>
    /\ result = "none"
    /\ last = NoCall
    /\ nsnap = 0
    /\ retention = MAX_BACKUPS
    /\ arg = NoArg
    /\ outputs = {}
    /\ matched = <<>>

\* rows = read_csv_dict(path); write_csv_dict(path, rows, header)
RoundTrip ==
    /\ last.stage = "none"
    /\ LET out == Save(store, backups, read_csv_dict(store), store.header, FALSE)
       IN  /\ store' = out.store
           /\ last' = Call("round_trip", store, out)
    /\ UNCHANGED <<files, backups, sec, orch, runlog, result, nsnap, retention, arg, outputs, matched>>

NextRoundTrip == RoundTrip

SpecRoundTrip == InitRoundTrip /\ [][NextRoundTrip]_vars

\* every line of the file has as many cells as the header
Rectangular(f) == \A i \in DOMAIN f.rows : Len(f.rows[i]) = Len(f.header)

\* C21: for a store file whose lines all have as many cells as the header,
\* write_csv_dict(path, read_csv_dict(path), header) does not raise and leaves
\* the same header and the same lines, in the same order, with the same value
\* in every column.
C21_RoundTrip ==
    (last.stage = "round_trip" /\ Rectangular(last.before))
        => /\ ~last.raised
           /\ store.header = last.before.header
           /\ store.rows = last.before.rows

\* a file of two records or more over two columns or more, one record with
\* every cell empty and one with a value, went through the round trip
C21_Witness ==
    /\ last.stage = "round_trip"
    /\ Rectangular(last.before)
    /\ Len(last.before.header) >= 2
    /\ Len(last.before.rows) >= 2
    /\ \E i \in DOMAIN last.before.rows : \A j \in DOMAIN last.before.rows[i] :
           last.before.rows[i][j] = ""
    /\ \E i \in DOMAIN last.before.rows : \E j \in DOMAIN last.before.rows[i] :
           last.before.rows[i][j] # ""
    /\ store.rows = last.before.rows

----------------------------------------------------------------------------
(* location_resolver.py run on a store with and without coordinates *)

\* values of the location_inferred column
LocationTexts == {"", " ", "Mysuru"}

\* values of the gps_lat and gps_lon columns of one record: no GPS tag, a
\* longitude lost, a position, a latitude that is no number
Coordinates == {<<"", "">>, <<"12.97", "">>, <<"12.97", "77.59">>, <<"north", "77.59">>}

\* what the geocoder gives when it is called: an address, or "" for a call
\* that raises or finds nothing (resolve_location_from_gps returns None)
Addresses == {"Bengaluru", ""}

GpsLine(i, loc, lat, lon) ==
    [j \in 1..Len(CSV_HEADERS) |->
        IF CSV_HEADERS[j] \in {"image_name", "local_path"} THEN ImageName(i)
        ELSE IF CSV_HEADERS[j] = "location_inferred" THEN loc
        ELSE IF CSV_HEADERS[j] = "gps_lat" THEN lat
        ELSE IF CSV_HEADERS[j] = "gps_lon" THEN lon
        ELSE ""]

InitLocation ==
    /\ files = <<>>
    /\ \E n \in 1..MaxGpsRows : \E loc \in [1..n -> LocationTexts] :
       \E gps \in [1..n -> Coordinates] :
        store = [exists |-> TRUE, header |-> CSV_HEADERS, mtime |-> 1,
                 rows |-> [i \in 1..n |-> GpsLine(i, loc[i], gps[i][1], gps[i][2])]]
    /\ backups = {}
    /\ sec = 0
    /\ orch = Idle
    /\ runlog = <<>>
    /\ result = "none"
    /\ last = NoCall
    /\ nsnap = 0
    /\ retention = MAX_BACKUPS
    /\ arg = NoArg
    /\ outputs = {}
    /\ matched = <<>>

\* fill_location(trip_folder); arg keeps what the geocoder answers for each
\* row it is called for ("" for the other rows) and the rows it was called for
FillLocation ==
    /\ last.stage = "none"
    /\ \E geo \in [DOMAIN store.rows -> Addresses] :
       \E out \in fill_location(store, backups, sec, nsnap + 1, geo) :
        /\ \A i \in DOMAIN store.rows :
              GeocoderCalled(read_csv_dict(store)[i]) \/ geo[i] = ""
        /\ store' = out.store
        /\ backups' = out.backups
        /\ last' = Call("fill_location", store, out)
        /\ nsnap' = nsnap + (IF out.snapped THEN 1 ELSE 0)
        /\ arg' = [geo |-> geo,
                   called |-> {i \in DOMAIN store.rows :
                                 GeocoderCalled(read_csv_dict(store)[i])}]
    /\ UNCHANGED <<files, sec, orch, runlog, result, retention, outputs, matched>>

NextLocation == FillLocation

SpecLocation == InitLocation /\ [][NextLocation]_vars

\* a cell without a value: empty, or blanks only
Blank(v) == \A j \in 1..Len(v) : Char(v, j) = " "

\* the text is a number: digits, with a decimal point and digits or without
Decimal(v) ==
    LET p == split(strip(v), ".")
    IN  Len(p) \in 1..2 /\ \A k \in DOMAIN p : IsDigits(p[k])

\* C22: fill_location calls the geocoder for a record only if its location is
\* empty and both coordinates are present; a record with a location keeps
\* every cell; a record without one gets the trip name when a coordinate is
\* missing or is not a number or the geocoder gives nothing, and the
\* geocoder's address otherwise.
C22_GeocoderGating ==
    last.stage = "fill_location" =>
        LET b == last.before
        IN  /\ last.status = "saved"
            /\ Len(store.rows) = Len(b.rows)
            /\ \A i \in arg.called :
                  /\ Blank(Cell(b, i, "location_inferred"))
                  /\ ~Blank(Cell(b, i, "gps_lat")) /\ ~Blank(Cell(b, i, "gps_lon"))
            /\ \A i \in DOMAIN b.rows :
                  IF ~Blank(Cell(b, i, "location_inferred"))
                  THEN store.rows[i] = b.rows[i]
                  ELSE Cell(store, i, "location_inferred") =
                          IF \/ Blank(Cell(b, i, "gps_lat")) \/ Blank(Cell(b, i, "gps_lon"))
                             \/ ~Decimal(Cell(b, i, "gps_lat"))
                             \/ ~Decimal(Cell(b, i, "gps_lon"))
                             \/ arg.geo[i] = ""
                          THEN TripHint
                          ELSE arg.geo[i]

\* one run met a record that has a location, one that was geocoded and one
\* whose geocoding gave nothing
C22_Witness ==
    /\ last.stage = "fill_location"
    /\ \E i \in DOMAIN store.rows : Cell(last.before, i, "location_inferred") = "Mysuru"
    /\ \E i \in arg.called : Cell(store, i, "location_inferred") = "Bengaluru"
    /\ \E i \in arg.called : Cell(store, i, "location_inferred") = TripHint

----------------------------------------------------------------------------
(* A stage whose analysis call throws for some of the records *)

\* detect_faces(image_path): an exception of face_recognition is caught and
\* False is returned
detect_faces(threw, face) == ~threw /\ face

\* the text a stage holds for each row after its try block: the except branch
\* of generate_ai_captions and of process_species puts ""
Caught(threw, ans) == [i \in DOMAIN ans |-> IF i \in threw THEN "" ELSE ans[i]]

\* a store scanned from the images of the folder, as the scan left it or after
\* every enrichment script
InitFailure ==
    /\ \E n \in 1..MaxImages : \E imgs \in [1..n -> Images] :
       \E k \in {0, Len(Enrichments)} :
        /\ \A i, j \in 1..n : i # j => imgs[i].name # imgs[j].name
        /\ files = imgs
        /\ store = Enriched(imgs, k)
    /\ backups = {}
    /\ sec = 0
    /\ orch = Idle
    /\ runlog = <<>>
    /\ result = "none"
    /\ last = NoCall
    /\ nsnap = 0
    /\ retention = MAX_BACKUPS
    /\ arg = NoArg
    /\ outputs = {}
    /\ matched = <<>>

\* a stage script is run once; its analysis call throws for the rows of threw
Failing(name, threw, out) ==
    /\ last.stage = "none"
    /\ store' = out.store
    /\ backups' = out.backups
    /\ last' = Call(name, store, out)
    /\ nsnap' = nsnap + (IF out.snapped THEN 1 ELSE 0)
    /\ arg' = [threw |-> threw]
    /\ UNCHANGED <<files, sec, orch, runlog, result, retention, outputs, matched>>

FailingFaces ==
    \E threw \in SUBSET DOMAIN store.rows :
    \E out \in process_faces(store, backups, sec, nsnap + 1, Found,
                              [i \in DOMAIN store.rows |-> detect_faces(i \in threw, Faces[i])]) :
        Failing("process_faces", threw, out)

FailingSpecies ==
    \E threw \in SUBSET DOMAIN store.rows :
    \E out \in process_species(store, backups, TRUE, Found, Caught(threw, Answer("species"))) :
        Failing("process_species", threw, out)

FailingAiCaptions ==
    \E threw \in SUBSET DOMAIN store.rows :
    \E out \in generate_ai_captions(store, backups, sec, nsnap + 1, TRUE, Found,
                                     Caught(threw, Answer("caption_ai"))) :
        Failing("generate_ai_captions", threw, out)

NextFailure == FailingFaces \/ FailingSpecies \/ FailingAiCaptions

SpecFailure == InitFailure /\ [][NextFailure]_vars

\* what the stage stores for a record whose analysis went through
Analysed(stage, i) ==
    IF stage = "process_faces" THEN (IF Faces[i] THEN "1" ELSE "0")
    ELSE IF stage = "process_species" THEN Answer("species")[i]
    ELSE Answer("caption_ai")[i]

\* C23: when the analysis call of a stage (face detector, species classifier,
\* captioner) throws for some records, the stage returns normally and saves
\* the store with every record; the target field of a record it threw for is
\* empty, and every other record holds the result of its analysis.
C23_FailureIsolated ==
    (last.stage \in {"process_faces", "process_species", "generate_ai_captions"}
     /\ arg.threw # {})
        => /\ ~last.raised
           /\ last.status = "saved"
           /\ Len(store.rows) = Len(last.before.rows)
           /\ \A i \in DOMAIN store.rows : \A col \in Target(last.stage) :
                 Cell(store, i, col) = IF i \in arg.threw THEN "" ELSE Analysed(last.stage, i)

----------------------------------------------------------------------------
(* A query by file extension *)

\* file names of a store
FileNames == {"a.jpg", "B.JPG", "c.png"}

\* values of --ext
ExtTexts == {".jpg", ".JPG", ".png,.jpg", ".gif, .PNG", ".gif"}

InitExt ==
    /\ files = <<>>
    /\ \E n \in 1..MaxImages : \E names \in [1..n -> FileNames] :
        store = [exists |-> TRUE, header |-> CSV_HEADERS, mtime |-> 1,
                 rows |-> [i \in 1..n |->
                             [j \in 1..Len(CSV_HEADERS) |->
                                 IF CSV_HEADERS[j] \in {"image_name", "local_path"}
                                 THEN names[i] ELSE ""]]]
    /\ backups = {}
    /\ sec = 0
    /\ orch = Idle
    /\ runlog = <<>>
    /\ result = "none"
    /\ last = NoCall
    /\ nsnap = 0
    /\ retention = MAX_BACKUPS
    /\ outputs = {}
    /\ matched = <<>>
    /\ \E e \in ExtTexts : arg = [Filters({}, NotGiven, "") EXCEPT !.ext = e]

NextExt == QueryImages \/ QueryImagesTop

SpecExt == InitExt /\ [][NextExt]_vars

\* the suffixes of a comma-separated list, blanks around them dropped
Suffixes(list) == {strip(e) : e \in Range(split(list, ","))}

\* C24: a query with the ext filter alone returns exactly the records whose
\* image_name ends with one of the suffixes of the list, file name and
\* suffix both compared in lower case, in store order.
C24_ExtPredicate ==
    Queried =>
        /\ result = "returned"
        /\ matched = SelectSeq(read_csv_dict(store),
                               LAMBDA row : \E suffix \in Suffixes(arg.ext) :
                                   endswith(lower(Get(row, "image_name")), lower(suffix)))

----------------------------------------------------------------------------
(* backup_csv in a MemoGraph folder that holds several CSV stores *)

\* CSV files kept side by side in the folder
StoreNames == {"labels.csv", "labels_old.csv"}

\* s.startswith(prefix)
startswith(s, prefix) ==
    Len(prefix) <= Len(s) /\ SubSeq(s, 1, Len(prefix)) = prefix

\* os.path.splitext(base_name): the name is cut before its last dot
splitext(base_name) ==
    LET dots == {i \in 1..Len(base_name) : Char(base_name, i) = "."}
        cut  == CHOOSE i \in dots : \A j \in dots : j <= i
    IN  IF dots = {} THEN <<base_name, "">>
        ELSE <<SubSeq(base_name, 1, cut - 1), SubSeq(base_name, cut, Len(base_name))>>

\* datetime.now().strftime("%Y%m%d_%H%M%S") at second now of the clock
Stamp(now) == "20240816_09000" \o Char(Digits, now + 1)

\* a file of the backups folder: shutil.copy2 keeps the mtime of the store;
\* of is history, the store the file is a copy of
BackupFile(name, f, of) == [name |-> name, mtime |-> f.mtime, of |-> of]

\* os.makedirs(backup_dir) stands before the test for the store
backup_csv_EnsureFirst(base_name, f, folder, dir, now, max_backups) ==
    LET parts == splitext(base_name)
        backup_name == parts[1] \o "_" \o Stamp(now) \o parts[2]
        copied == copy2(dir, BackupFile(backup_name, f, base_name))
        listed == {b \in copied : startswith(b.name, parts[1]) /\ endswith(b.name, parts[2])}
    IN  IF ~f.exists THEN [ret |-> "", folder |-> TRUE, dirs |-> {dir}]
        ELSE [ret |-> backup_name, folder |-> TRUE,
              dirs |-> {rotate_backups(copied, existing, max_backups) :
                           existing \in SortedNewestFirst(listed)}]

\* backup_csv(csv_path, max_backups) for the store base_name of the folder:
\* the path it returns ("" for None), whether the backups folder exists
\* afterwards, and the possible contents of the backups folder.  The files
\* rotated are those whose name starts with name_no_ext and ends with ext.
backup_csv_Folder(base_name, f, folder, dir, now, max_backups) ==
    LET parts == splitext(base_name)
        backup_name == parts[1] \o "_" \o Stamp(now) \o parts[2]
        copied == copy2(dir, BackupFile(backup_name, f, base_name))
        listed == {b \in copied : startswith(b.name, parts[1]) /\ endswith(b.name, parts[2])}
    IN  IF ~f.exists THEN [ret |-> "", folder |-> folder, dirs |-> {dir}]
        ELSE [ret |-> backup_name, folder |-> TRUE,
              dirs |-> {rotate_backups(copied, existing, max_backups) :
                           existing \in SortedNewestFirst(listed)}]

InitFolder ==
    /\ files = <<>>
    /\ store = NoFile
    /\ backups = {}
    /\ sec = 0
    /\ orch = Idle
    /\ runlog = <<>>
    /\ result = "none"
    /\ last = NoCall
    /\ nsnap = 0
    /\ retention \in 1..MAX_BACKUPS
    /\ arg = [stores |-> [name \in StoreNames |-> NoFile], folder |-> FALSE, called |-> ""]
    /\ outputs = {}
    /\ matched = <<>>

\* a stage or the user writes the CSV file name of the folder
WriteStoreFile(name) ==
    /\ \E m \in 1..MaxWrites :
        /\ \A other \in StoreNames : arg.stores[other].mtime < m
        /\ arg' = [arg EXCEPT !.stores[name] =
                      [exists |-> TRUE, header |-> CSV_HEADERS, rows |-> <<>>, mtime |-> m]]
    /\ last' = [NoCall EXCEPT !.stage = "write_csv_dict", !.before = arg.stores[name],
                              !.wrote = TRUE]
    /\ UNCHANGED <<files, store, backups, sec, orch, runlog, result, nsnap, retention, outputs, matched>>

\* backup_csv(os.path.join(folder, name), max_backups=retention)
BackupStoreFile(name) ==
    /\ nsnap < MaxSnaps
    /\ \E b \in {backup_csv_Folder(name, arg.stores[name], arg.folder, backups, sec, retention)} :
        /\ backups' \in b.dirs
        /\ arg' = [arg EXCEPT !.folder = b.folder, !.called = name]
        /\ result' = IF b.ret = "" THEN "None" ELSE b.ret
        /\ last' = [NoCall EXCEPT !.stage = "backup_csv", !.before = arg.stores[name],
                                  !.status = IF b.ret = "" THEN "No CSV to backup"
                                             ELSE "Created backup",
                                  !.snapped = b.ret # ""]
    /\ nsnap' = nsnap + 1
    /\ UNCHANGED <<files, store, sec, orch, runlog, retention, outputs, matched>>

WriteAStore == \E name \in StoreNames : WriteStoreFile(name)

BackupAStore == \E name \in StoreNames : BackupStoreFile(name)

NextFolder == WriteAStore \/ BackupAStore \/ Elapse

SpecFolder == InitFolder /\ [][NextFolder]_vars

\* a backup_csv call of this step, on a store that does not exist
MissingStoreCall == nsnap' = nsnap + 1 /\ ~arg.stores[arg'.called].exists

C26_RotationScoped ==
    [][nsnap' = nsnap + 1 =>
          \A d \in backups : (\A k \in backups' : k.name # d.name) => d.of = arg'.called]_vars

====
